---- MODULE Spec2Model ----
(***************************************************************************)
(* Healthcare-Plan-Project: the change-triggered ETL coordinator           *)
(* (cdc_etl_watcher.js, kept here as src/unnamed/part_000) and the         *)
(* MongoDB -> PostgreSQL transform-load pipeline (src/etl_runner.js).      *)
(*                                                                         *)
(* Two specifications share this module.                                   *)
(*   SpecCoord  the watcher process: its two globals, the debounce timers  *)
(*              and the child processes it spawns.  A child is opaque to   *)
(*              the watcher except for its 'error' and 'close' events.     *)
(*   SpecETL    pipeline processes (node etl_runner.js) running against    *)
(*              one document collection and one warehouse.                 *)
(* The exit status of a pipeline process is the one operator               *)
(* ProcessExitCode in both.                                                *)
(***************************************************************************)
EXTENDS Integers, Sequences, FiniteSets, TLC

(***************************************************************************)
(* Bounds                                                                  *)
(***************************************************************************)
MaxNotify == 3
MaxClock == 2
MaxDocs == 2
MaxRuns == 2

(***************************************************************************)
(* Program constants                                                       *)
(***************************************************************************)
DebounceDelayMs == 2000
ReconnectDelayMs == 5000

\* Codes 'close' carries when spawn() itself failed (ENOENT, EACCES).
SpawnErrnos == {-2, -13}

VARIABLES
    \* ---- watcher process (part_000) ----
    etlRunning,     \* let etlRunning
    etlQueue,       \* let etlQueue: the Date.now() of every queued trigger
    timers,         \* pending setTimeout(runETL, 2000) callbacks, by delay
    children,       \* ChildProcess objects made by spawn(), in spawn order
    watching,       \* the change stream's 'change' handler is registered
    noteLog,        \* history: one entry per delivered change notification
    closeLog,       \* history: one entry per 'close' event handled
    stream,         \* the change stream, the reconnect timers and the watcher's life
    now             \* the last reading of Date.now()

VARIABLES
    \* ---- pipeline processes (etl_runner.js), document store, warehouse ----
    plans,          \* the plans collection, as Plan.find({}).lean() returns it
    tz,             \* the host's offset from UTC, in hours
    procs,          \* every `node etl_runner.js` process started so far
    wh,             \* committed rows of the warehouse tables
    seqs,           \* last value of each SERIAL sequence (not transactional)
    events          \* history: BEGIN / COMMIT / ROLLBACK / AUDIT in issue order

coordVars == <<etlRunning, etlQueue, timers, children, watching, noteLog, closeLog, stream>>
etlVars == <<plans, tz, procs, wh, seqs, events>>
vars == <<coordVars, etlVars, now>>

(***************************************************************************)
(* Exit status of `node etl_runner.js`.  The script ends with a bare       *)
(* `runETL();`: the promise's value (undefined, or false from the catch)   *)
(* is dropped and nothing sets process.exitCode or calls process.exit, so  *)
(* the process ends with status 0 once the event loop drains.              *)
(***************************************************************************)
\* Date.now(): a reading never earlier than the previous one.
ClockRead(t) == t >= now

RunOutcomes == {"allLoaded", "someFailed", "cannotStart"}

RunReturn(outcome) == IF outcome = "cannotStart" THEN "false" ELSE "undefined"

ProcessExitCode(ret) == 0

(***************************************************************************)
(* Documents of the plans collection                                       *)
(*                                                                         *)
(* A JS string that the code normalises is a tuple of characters; the      *)
(* empty tuple and "" stand for a missing (falsy) field.  A cost value is  *)
(* a number, a string of decimal digits, a non-numeric value (another      *)
(* string, an array of {amount,...}) or missing.  An instant is its UTC    *)
(* calendar day and UTC hour.                                              *)
(***************************************************************************)
Num(n) == [k |-> "num", v |-> n]
\* The string of the decimal digits of n, as in {deductible: "100"}.
NumStr(n) == [k |-> "str", v |-> n]
NaNCost == [k |-> "bad", v |-> 0]
NoCost == [k |-> "absent", v |-> 0]

NoShares == [k |-> "absent", deductible |-> NoCost, copay |-> NoCost]
Shares(d, c) == [k |-> "obj", deductible |-> d, copay |-> c]

Instant(y, m, d, h) == [k |-> "date", y |-> y, m |-> m, d |-> d, h |-> h]
InvalidDate == [k |-> "invalid", y |-> 0, m |-> 0, d |-> 0, h |-> 0]
NoDate == [k |-> "absent", y |-> 0, m |-> 0, d |-> 0, h |-> 0]

Service(name, objectId, shares) == [name |-> name, objectId |-> objectId, cost |-> shares]
Services(items) == [k |-> "list", items |-> items]
NoServices == [k |-> "absent", items |-> <<>>]
NotAList == [k |-> "other", items |-> <<>>]

\* The document of the spec's scenario: p1 / acme / inNetwork / 2024-01-15.
DocP1 ==
    [_id |-> "id1", objectId |-> "p1", _org |-> "acme",
     planType |-> <<"i", "n", "N", "e", "t">>,
     creationDate |-> Instant(2024, 1, 15, 0),
     planCostShares |-> Shares(Num(2000), Num(23)),
     linkedPlanServices |-> Services(<<>>)]

\* Two linked services: one without cost data, one without an objectId.
DocP2 ==
    [_id |-> "id2", objectId |-> "p2", _org |-> "acme",
     planType |-> <<"I", "n", " ", " ", "N", "e", "t">>,
     creationDate |-> Instant(2024, 3, 1, 0),
     planCostShares |-> Shares(Num(500), NoCost),
     linkedPlanServices |->
        Services(<<Service(<<"L", "a", "b">>, <<"s", "1">>, NoShares),
                   Service(<<"X", " ", "R", "a", "y">>, <<>>, Shares(Num(10), Num(5)))>>)]

\* Unparseable creation date.
DocBadDate ==
    [_id |-> "id3", objectId |-> "p3", _org |-> "umbrella",
     planType |-> <<"h", "m", "o">>,
     creationDate |-> InvalidDate,
     planCostShares |-> Shares(Num(100), Num(1)),
     linkedPlanServices |-> Services(<<>>)]

\* Deductible is not a number (the API stores [{amount, network}]).
DocBadCost ==
    [_id |-> "id4", objectId |-> "p4", _org |-> "acme",
     planType |-> <<"p", "p", "o">>,
     creationDate |-> Instant(2024, 1, 15, 0),
     planCostShares |-> Shares(NaNCost, Num(50)),
     linkedPlanServices |-> Services(<<>>)]

\* The second linked service has a non-numeric copay.
DocBadService ==
    [_id |-> "id5", objectId |-> "p5", _org |-> "globex",
     planType |-> <<"h", "m", "o">>,
     creationDate |-> Instant(2023, 12, 31, 0),
     planCostShares |-> Shares(Num(0), Num(7)),
     linkedPlanServices |->
        Services(<<Service(<<"L", "a", "b">>, <<"s", "1">>, Shares(Num(1), Num(2))),
                   Service(<<"M", "R", "I">>, <<"s", "2">>, Shares(Num(3), NaNCost))>>)]

\* Only the fields MongoDB always supplies.
DocBare ==
    [_id |-> "id6", objectId |-> "", _org |-> "",
     planType |-> <<>>,
     creationDate |-> NoDate,
     planCostShares |-> NoShares,
     linkedPlanServices |-> NoServices]

DocSet == {DocP1, DocP2, DocBadDate, DocBadCost, DocBadService, DocBare}

\* The instants new Date() can return during a run.
NowInstants == {Instant(2026, 11, 1, 12)}

\* Host offsets from UTC, in hours.
HostOffsets == {-5, 0}

(***************************************************************************)
(* JavaScript expressions used by the pipeline                             *)
(***************************************************************************)
\* s || dflt on strings
OrElseStr(s, dflt) == IF s = "" THEN dflt ELSE s
OrElseSeq(s, dflt) == IF s = <<>> THEN dflt ELSE s

\* x || 0 on a cost value: a non-empty string is truthy, "0" included.
OrZero(c) ==
    IF c.k \in {"bad", "str"} THEN c
    ELSE IF c.k = "num" /\ c.v # 0 THEN c
    ELSE Num(0)

\* The number of decimal digits of n >= 0.
RECURSIVE Digits(_)
Digits(n) == IF n < 10 THEN 1 ELSE 1 + Digits(n \div 10)

RECURSIVE Pow10(_)
Pow10(n) == IF n = 0 THEN 1 ELSE 10 * Pow10(n - 1)

\* a + b: numeric addition of two numbers; as soon as one side is a string
\* the other is converted to a string and the two are concatenated, which
\* for digits reads as another number (one of more than eight digits is
\* kept as 10^8, the least magnitude NUMERIC(10,2) rejects); anything else
\* gives a string that is not a number.
Plus(a, b) ==
    IF a.k = "num" /\ b.k = "num" THEN Num(a.v + b.v)
    ELSE IF a.k \in {"num", "str"} /\ b.k \in {"num", "str"} /\ a.v >= 0 /\ b.v >= 0
         THEN NumStr(IF a.v # 0 /\ Digits(a.v) + Digits(b.v) > 8
                     THEN 100000000
                     ELSE a.v * Pow10(Digits(b.v)) + b.v)
         ELSE NaNCost

LowerChar(c) ==
    CASE c = "I" -> "i" [] c = "N" -> "n" [] c = "L" -> "l" [] c = "X" -> "x"
      [] c = "R" -> "r" [] c = "M" -> "m" [] OTHER -> c

IsSpace(c) == c = " "

toLowerCase(s) == [i \in 1..Len(s) |-> LowerChar(s[i])]

\* s.replace(/\s+/g, '_')
RECURSIVE replaceSpaces(_, _)
replaceSpaces(s, i) ==
    IF i > Len(s) THEN <<>>
    ELSE IF IsSpace(s[i])
         THEN (IF i > 1 /\ IsSpace(s[i - 1]) THEN <<>> ELSE <<"_">>) \o replaceSpaces(s, i + 1)
         ELSE <<s[i]>> \o replaceSpaces(s, i + 1)

\* x.toLowerCase().replace(/\s+/g, '_')
Normalize(s) == replaceSpaces(toLowerCase(s), 1)

Unknown == <<"u", "n", "k", "n", "o", "w", "n">>
UnknownService == <<"U", "n", "k", "n", "o", "w", "n", " ", "S", "e", "r", "v", "i", "c", "e">>

(***************************************************************************)
(* Calendar                                                                *)
(***************************************************************************)
IsLeap(y) == (y % 4 = 0 /\ y % 100 # 0) \/ y % 400 = 0

DaysIn(y, m) ==
    IF m = 2 THEN (IF IsLeap(y) THEN 29 ELSE 28)
    ELSE IF m \in {4, 6, 9, 11} THEN 30 ELSE 31

PrevDay(t) ==
    IF t.d > 1 THEN [t EXCEPT !.d = @ - 1]
    ELSE IF t.m > 1 THEN [t EXCEPT !.m = @ - 1, !.d = DaysIn(t.y, t.m - 1)]
    ELSE [t EXCEPT !.y = @ - 1, !.m = 12, !.d = 31]

NextDay(t) ==
    IF t.d < DaysIn(t.y, t.m) THEN [t EXCEPT !.d = @ + 1]
    ELSE IF t.m < 12 THEN [t EXCEPT !.m = @ + 1, !.d = 1]
    ELSE [t EXCEPT !.y = @ + 1, !.m = 1, !.d = 1]

\* The instant as the host's local calendar reads it (getFullYear,
\* getMonth, getDate work on this).
LocalTime(t, off) ==
    IF t.h + off < 0 THEN [PrevDay(t) EXCEPT !.h = t.h + off + 24]
    ELSE IF t.h + off >= 24 THEN [NextDay(t) EXCEPT !.h = t.h + off - 24]
    ELSE [t EXCEPT !.h = t.h + off]

\* date.toISOString().split('T')[0]: the UTC calendar day
dateStr(t) == <<t.y, t.m, t.d>>

\* parseInt(date.toISOString().replace(/[-:]/g, '').substring(0, 8))
dateKeyOf(t) == t.y * 10000 + t.m * 100 + t.d

(***************************************************************************)
(* Warehouse                                                               *)
(***************************************************************************)
Tables == {"dim_organization", "dim_plan_type", "dim_date", "dim_plan", "dim_service",
           "fact_plan_costs", "fact_service_costs", "etl_audit_log"}

EmptyDb == [t \in Tables |-> {}]

Serials == {"org_key", "plan_type_key", "plan_key", "service_key",
              "fact_plan_cost_key", "fact_service_cost_key", "audit_id"}

\* What a statement of process record q sees: the committed rows and the
\* rows its open transaction wrote; an organization row rewritten by the
\* transaction hides the committed one.
View(q) ==
    IF ~q.inTx THEN wh
    ELSE [t \in Tables |->
            IF t = "dim_organization"
            THEN {r \in wh[t] : ~\E w \in q.tx[t] : w.org_id = r.org_id} \cup q.tx[t]
            ELSE wh[t] \cup q.tx[t]]

\* NUMERIC(10,2) accepts a number below 10^8 in magnitude; the parameter
\* reaches the server as text, so a string of digits is such a number.
NumericOk(c) == c.k \in {"num", "str"} /\ c.v < 100000000 /\ c.v > -100000000

\* new Date(x) for a stats timestamp: new Date(null) is the epoch.
ToDate(ts) == IF ts = <<>> THEN 0 ELSE ts[1]

\* The dimension tables, the column holding each one's natural key and the
\* column holding its surrogate key.
DimTables == {"dim_organization", "dim_plan_type", "dim_date", "dim_plan", "dim_service"}

NatKey(t, r) ==
    CASE t = "dim_organization" -> r.org_id
      [] t = "dim_plan_type" -> r.plan_type_code
      [] t = "dim_date" -> r.date_value
      [] t = "dim_plan" -> r.plan_id
      [] t = "dim_service" -> r.service_id

SurKey(t, r) ==
    CASE t = "dim_organization" -> r.org_key
      [] t = "dim_plan_type" -> r.plan_type_key
      [] t = "dim_date" -> r.date_key
      [] t = "dim_plan" -> r.plan_key
      [] t = "dim_service" -> r.service_key

\* The natural keys loadDimensions derives from a document.
DocNatKeys(plan) ==
    [dim_organization |-> {OrElseStr(plan._org, "unknown")},
     dim_plan_type |-> {Normalize(OrElseSeq(plan.planType, Unknown))},
     dim_date |-> IF plan.creationDate.k = "absent" THEN {dateStr(t) : t \in NowInstants}
                  ELSE {dateStr(plan.creationDate)},
     dim_plan |-> {OrElseStr(plan.objectId, plan._id)}]

(***************************************************************************)
(* The pipeline process: node etl_runner.js                                *)
(***************************************************************************)
NoKeys == [org_key |-> 0, plan_type_key |-> 0, creation_date_key |-> 0, plan_key |-> 0]

\* Module state of a fresh process (const stats = {...}, pgPool, mongoose).
NewProc ==
    [pc |-> "start", i |-> 1, j |-> 1,
     stats |-> [plansExtracted |-> 0, plansLoaded |-> 0, servicesLoaded |-> 0,
                errors |-> 0, startTime |-> <<>>, endTime |-> <<>>],
     plans |-> <<>>, keys |-> NoKeys,
     client |-> FALSE, released |-> 0, pool |-> "open", mongoose |-> "disconnected",
     inTx |-> FALSE, tx |-> EmptyDb, snap |-> EmptyDb,
     ret |-> "pending", exitCode |-> 0,
     serviceKey |-> 0,   \* let serviceKey of loadServiceFacts, between its statements
     auditId |-> 0]      \* history: audit_id of the row this run wrote

Running(p) == procs[p].pc # "exited"

\* A statement's effect: inside BEGIN..COMMIT it goes to the transaction,
\* otherwise it is committed at once (autocommit).
DbWrite(st, t, rem, add) ==
    IF st.inTx
    THEN [st EXCEPT !.tx[t] = (@ \ rem) \cup add]
    ELSE [st EXCEPT !.wh[t] = (@ \ rem) \cup add]

DbOf(q) == [inTx |-> q.inTx, tx |-> q.tx, wh |-> wh]

\* Where the loop goes after document i: the next document or the audit.
NextDoc(q) == IF q.i + 1 <= Len(q.plans) THEN "begin" ELSE "audit"

Emit(e, p, i) == events' = Append(events, [e |-> e, p |-> p, doc |-> i])

\* node etl_runner.js starts; runETL() sets stats.startTime = Date.now().
StartRun(maxConc) ==
    /\ Len(procs) < MaxRuns
    /\ Cardinality({p \in 1..Len(procs) : Running(p)}) < maxConc
    /\ \E t \in {x \in 1..MaxClock : ClockRead(x)} :
          /\ now' = t
          /\ procs' = Append(procs, [NewProc EXCEPT !.pc = "connectMongo",
                                                    !.stats.startTime = <<t>>])
    /\ UNCHANGED <<plans, tz, wh, seqs, events>>
    /\ UNCHANGED coordVars

\* await mongoose.connect(...); a failure lands in catch: return false.
ConnectMongo(p) ==
    /\ procs[p].pc = "connectMongo"
    /\ \E ok \in BOOLEAN :
          procs' = [procs EXCEPT ![p] =
                      IF ok THEN [@ EXCEPT !.pc = "connectPg", !.mongoose = "connected"]
                      ELSE [@ EXCEPT !.pc = "finally", !.ret = "false"]]
    /\ UNCHANGED <<plans, tz, wh, seqs, events, now>>
    /\ UNCHANGED coordVars

\* client = await pgPool.connect(); a failure lands in catch: return false.
ConnectPg(p) ==
    /\ procs[p].pc = "connectPg"
    /\ \E ok \in BOOLEAN :
          procs' = [procs EXCEPT ![p] =
                      IF ok THEN [@ EXCEPT !.pc = "extract", !.client = TRUE]
                      ELSE [@ EXCEPT !.pc = "finally", !.ret = "false"]]
    /\ UNCHANGED <<plans, tz, wh, seqs, events, now>>
    /\ UNCHANGED coordVars

\* const plans = await Plan.find({}).lean(); stats.plansExtracted = plans.length
Extract(p) ==
    /\ procs[p].pc = "extract"
    /\ procs' = [procs EXCEPT ![p] =
                   [@ EXCEPT !.plans = plans, !.stats.plansExtracted = Len(plans), !.i = 1,
                             !.pc = IF Len(plans) >= 1 THEN "begin" ELSE "audit"]]
    /\ UNCHANGED <<plans, tz, wh, seqs, events, now>>
    /\ UNCHANGED coordVars

\* A transaction that starts with the keys of the previous document still
\* in hand.
Begin_keepsKeys(p) ==
    /\ procs[p].pc = "begin"
    /\ procs' = [procs EXCEPT ![p] =
                   [@ EXCEPT !.inTx = TRUE, !.tx = EmptyDb, !.snap = wh,
                             !.pc = IF procs[p].keys.plan_key # 0 THEN "planfacts" ELSE "org"]]
    /\ Emit("BEGIN", p, procs[p].i)
    /\ UNCHANGED <<plans, tz, wh, seqs, now>>
    /\ UNCHANGED coordVars

\* await client.query('BEGIN')
Begin(p) ==
    /\ procs[p].pc = "begin"
    /\ procs' = [procs EXCEPT ![p] =
                   [@ EXCEPT !.inTx = TRUE, !.tx = EmptyDb, !.snap = wh, !.keys = NoKeys,
                             !.pc = "org"]]
    /\ Emit("BEGIN", p, procs[p].i)
    /\ UNCHANGED <<plans, tz, wh, seqs, now>>
    /\ UNCHANGED coordVars

\* loadDimensions, organization: INSERT ... ON CONFLICT (org_id) DO UPDATE
\* SET org_name = EXCLUDED.org_name RETURNING org_key.  The sequence value
\* for the proposed row is drawn whether or not the row conflicts.
LoadOrganization(p) ==
    LET q == procs[p]
        plan == q.plans[q.i]
        orgId == OrElseStr(plan._org, "unknown")
        orgName == OrElseStr(plan._org, "Unknown Organization")
        existing == {r \in View(q)["dim_organization"] : r.org_id = orgId}
        fresh == [org_key |-> seqs["org_key"] + 1, org_id |-> orgId, org_name |-> orgName]
    IN
    /\ q.pc = "org"
    /\ seqs' = [seqs EXCEPT !["org_key"] = @ + 1]
    /\ \E row \in (IF existing = {} THEN {fresh}
                   ELSE {[r EXCEPT !.org_name = orgName] : r \in existing}) :
          LET st == DbWrite(DbOf(q), "dim_organization", existing, {row}) IN
          /\ procs' = [procs EXCEPT ![p] =
                         [q EXCEPT !.tx = st.tx, !.keys.org_key = row.org_key, !.pc = "ptype"]]
          /\ wh' = st.wh
    /\ UNCHANGED <<plans, tz, events, now>>
    /\ UNCHANGED coordVars

\* The plan type looked up by its display name instead of its code.
LoadPlanType_byName(p) ==
    LET q == procs[p]
        plan == q.plans[q.i]
        planType == OrElseSeq(plan.planType, Unknown)
        planTypeCode == Normalize(planType)
        existing == {r \in View(q)["dim_plan_type"] : r.plan_type_name = planType}
        fresh == [plan_type_key |-> seqs["plan_type_key"] + 1,
                  plan_type_code |-> planTypeCode, plan_type_name |-> planType]
    IN
    /\ q.pc = "ptype"
    /\ IF existing # {}
       THEN /\ \E r \in existing :
                 procs' = [procs EXCEPT ![p] =
                             [q EXCEPT !.keys.plan_type_key = r.plan_type_key, !.pc = "date"]]
            /\ UNCHANGED <<wh, seqs>>
       ELSE LET st == DbWrite(DbOf(q), "dim_plan_type", {}, {fresh}) IN
            /\ procs' = [procs EXCEPT ![p] =
                           [q EXCEPT !.tx = st.tx, !.keys.plan_type_key = fresh.plan_type_key,
                                     !.pc = "date"]]
            /\ wh' = st.wh
            /\ seqs' = [seqs EXCEPT !["plan_type_key"] = @ + 1]
    /\ UNCHANGED <<plans, tz, events, now>>
    /\ UNCHANGED coordVars

\* loadDimensions, plan type: SELECT by plan_type_code, INSERT when absent.
LoadPlanType(p) ==
    LET q == procs[p]
        plan == q.plans[q.i]
        planType == OrElseSeq(plan.planType, Unknown)
        planTypeCode == Normalize(planType)
        existing == {r \in View(q)["dim_plan_type"] : r.plan_type_code = planTypeCode}
        fresh == [plan_type_key |-> seqs["plan_type_key"] + 1,
                  plan_type_code |-> planTypeCode, plan_type_name |-> planType]
    IN
    /\ q.pc = "ptype"
    /\ IF existing # {}
       THEN /\ \E r \in existing :
                 procs' = [procs EXCEPT ![p] =
                             [q EXCEPT !.keys.plan_type_key = r.plan_type_key, !.pc = "date"]]
            /\ UNCHANGED <<wh, seqs>>
       ELSE LET st == DbWrite(DbOf(q), "dim_plan_type", {}, {fresh}) IN
            /\ procs' = [procs EXCEPT ![p] =
                           [q EXCEPT !.tx = st.tx, !.keys.plan_type_key = fresh.plan_type_key,
                                     !.pc = "date"]]
            /\ wh' = st.wh
            /\ seqs' = [seqs EXCEPT !["plan_type_key"] = @ + 1]
    /\ UNCHANGED <<plans, tz, events, now>>
    /\ UNCHANGED coordVars

\* date.getDay() of a local calendar day: 0 is Sunday, 6 is Saturday.
getDay(loc) ==
    LET shift == <<0, 3, 2, 5, 0, 3, 5, 1, 4, 6, 2, 4>>
        y == IF loc.m < 3 THEN loc.y - 1 ELSE loc.y
    IN (y + (y \div 4) - (y \div 100) + (y \div 400) + shift[loc.m] + loc.d) % 7

\* The key taken from the host's local calendar, like the year, month and
\* day columns.
DateRow_localKey(t, off) ==
    LET loc == LocalTime(t, off) IN
    [date_key |-> dateKeyOf(loc), date_value |-> dateStr(t),
     year |-> loc.y, quarter |-> ((loc.m - 1) \div 3) + 1, month |-> loc.m, day |-> loc.d,
     day_of_week |-> getDay(loc), is_weekend |-> (getDay(loc) = 0 \/ getDay(loc) = 6)]

\* The row getOrCreateDateKey inserts for instant t on a host at offset off.
DateRow(t, off) ==
    LET loc == LocalTime(t, off) IN
    [date_key |-> dateKeyOf(t), date_value |-> dateStr(t),
     year |-> loc.y, quarter |-> ((loc.m - 1) \div 3) + 1, month |-> loc.m, day |-> loc.d,
     day_of_week |-> getDay(loc), is_weekend |-> (getDay(loc) = 0 \/ getDay(loc) = 6)]

\* loadDimensions, date: plan.creationDate || new Date(), then
\* getOrCreateDateKey.  toISOString() throws on an invalid date.
LoadDate(p) ==
    LET q == procs[p]
        plan == q.plans[q.i]
    IN
    /\ q.pc = "date"
    /\ \E t \in (IF plan.creationDate.k = "absent" THEN NowInstants ELSE {plan.creationDate}) :
          IF t.k = "invalid"
          THEN /\ procs' = [procs EXCEPT ![p] = [q EXCEPT !.pc = "rollback"]]
               /\ UNCHANGED wh
          ELSE LET existing == {r \in View(q)["dim_date"] : r.date_value = dateStr(t)} IN
               IF existing # {}
               THEN /\ \E r \in existing :
                         procs' = [procs EXCEPT ![p] =
                                     [q EXCEPT !.keys.creation_date_key = r.date_key,
                                               !.pc = "plan"]]
                    /\ UNCHANGED wh
               ELSE LET row == DateRow(t, tz)
                        st == DbWrite(DbOf(q), "dim_date", {}, {row})
                    IN
                    /\ procs' = [procs EXCEPT ![p] =
                                   [q EXCEPT !.tx = st.tx, !.keys.creation_date_key = row.date_key,
                                             !.pc = "plan"]]
                    /\ wh' = st.wh
    /\ UNCHANGED <<plans, tz, seqs, events, now>>
    /\ UNCHANGED coordVars

\* The DATE stored from the creationDate parameter of the dim_plan insert:
\* the day the string names, or the host's local day of a Date object.
EffectiveDate(plan, off) ==
    IF plan.creationDate.k = "absent"
    THEN LET loc == LocalTime(CHOOSE t \in NowInstants : TRUE, off) IN <<loc.y, loc.m, loc.d>>
    ELSE dateStr(plan.creationDate)

\* The plan dimension written without looking for the plan first.
LoadPlan_alwaysInsert(p) ==
    LET q == procs[p]
        plan == q.plans[q.i]
        planId == OrElseStr(plan.objectId, plan._id)
        fresh == [plan_key |-> seqs["plan_key"] + 1, plan_id |-> planId,
                  plan_type_key |-> q.keys.plan_type_key, org_key |-> q.keys.org_key,
                  is_current |-> TRUE, effective_date |-> EffectiveDate(plan, tz),
                  expiration_date |-> <<>>]
        st == DbWrite(DbOf(q), "dim_plan", {}, {fresh})
    IN
    /\ q.pc = "plan"
    /\ procs' = [procs EXCEPT ![p] =
                   [q EXCEPT !.tx = st.tx, !.keys.plan_key = fresh.plan_key,
                             !.pc = "planfacts"]]
    /\ wh' = st.wh
    /\ seqs' = [seqs EXCEPT !["plan_key"] = @ + 1]
    /\ UNCHANGED <<plans, tz, events, now>>
    /\ UNCHANGED coordVars

\* The plan dimension overwritten in place when the plan is known (Type-1).
LoadPlan_overwrite(p) ==
    LET q == procs[p]
        plan == q.plans[q.i]
        planId == OrElseStr(plan.objectId, plan._id)
        existing == {r \in View(q)["dim_plan"] : r.plan_id = planId}
        fresh == [plan_key |-> seqs["plan_key"] + 1, plan_id |-> planId,
                  plan_type_key |-> q.keys.plan_type_key, org_key |-> q.keys.org_key,
                  is_current |-> TRUE, effective_date |-> EffectiveDate(plan, tz),
                  expiration_date |-> <<>>]
    IN
    /\ q.pc = "plan"
    /\ IF existing # {}
       THEN /\ \E r \in existing :
                 /\ procs' = [procs EXCEPT ![p] =
                                [q EXCEPT !.keys.plan_key = r.plan_key, !.pc = "planfacts"]]
                 /\ wh' = [wh EXCEPT !["dim_plan"] =
                              (@ \ {r}) \cup {[r EXCEPT !.org_key = q.keys.org_key,
                                                        !.plan_type_key = q.keys.plan_type_key]}]
            /\ UNCHANGED seqs
       ELSE LET st == DbWrite(DbOf(q), "dim_plan", {}, {fresh}) IN
            /\ procs' = [procs EXCEPT ![p] =
                           [q EXCEPT !.tx = st.tx, !.keys.plan_key = fresh.plan_key,
                                     !.pc = "planfacts"]]
            /\ wh' = st.wh
            /\ seqs' = [seqs EXCEPT !["plan_key"] = @ + 1]
    /\ UNCHANGED <<plans, tz, events, now>>
    /\ UNCHANGED coordVars

\* loadDimensions, plan: SELECT by plan_id, INSERT when absent.
LoadPlan(p) ==
    LET q == procs[p]
        plan == q.plans[q.i]
        planId == OrElseStr(plan.objectId, plan._id)
        existing == {r \in View(q)["dim_plan"] : r.plan_id = planId}
        fresh == [plan_key |-> seqs["plan_key"] + 1, plan_id |-> planId,
                  plan_type_key |-> q.keys.plan_type_key, org_key |-> q.keys.org_key,
                  is_current |-> TRUE, effective_date |-> EffectiveDate(plan, tz),
                  expiration_date |-> <<>>]
    IN
    /\ q.pc = "plan"
    /\ IF existing # {}
       THEN /\ \E r \in existing :
                 procs' = [procs EXCEPT ![p] =
                             [q EXCEPT !.keys.plan_key = r.plan_key, !.pc = "planfacts"]]
            /\ UNCHANGED <<wh, seqs>>
       ELSE LET st == DbWrite(DbOf(q), "dim_plan", {}, {fresh}) IN
            /\ procs' = [procs EXCEPT ![p] =
                           [q EXCEPT !.tx = st.tx, !.keys.plan_key = fresh.plan_key,
                                     !.pc = "planfacts"]]
            /\ wh' = st.wh
            /\ seqs' = [seqs EXCEPT !["plan_key"] = @ + 1]
    /\ UNCHANGED <<plans, tz, events, now>>
    /\ UNCHANGED coordVars

\* The service entry the loop of loadServiceFacts is at, if any:
\* (plan.linkedPlanServices || []) must be an array with a j-th element.
HasService(plan, j) == plan.linkedPlanServices.k = "list" /\ j <= Len(plan.linkedPlanServices.items)

\* loadPlanFacts replacing the fact rows the plan already has.
LoadPlanFacts_replace(p) ==
    LET q == procs[p]
        plan == q.plans[q.i]
        deductible == OrZero(plan.planCostShares.deductible)
        copay == OrZero(plan.planCostShares.copay)
        totalCostShares == Plus(deductible, copay)
        row == [fact_plan_cost_key |-> seqs["fact_plan_cost_key"] + 1,
                plan_key |-> q.keys.plan_key, plan_type_key |-> q.keys.plan_type_key,
                org_key |-> q.keys.org_key, creation_date_key |-> q.keys.creation_date_key,
                deductible |-> deductible.v, copay |-> copay.v,
                total_cost_shares |-> totalCostShares.v]
        old == {f \in wh["fact_plan_costs"] : f.plan_key = q.keys.plan_key}
    IN
    /\ q.pc = "planfacts"
    /\ IF NumericOk(deductible) /\ NumericOk(copay) /\ NumericOk(totalCostShares)
       THEN /\ procs' = [procs EXCEPT ![p] =
                           [q EXCEPT !.tx["fact_plan_costs"] = @ \cup {row}, !.j = 1,
                                     !.pc = IF HasService(plan, 1) THEN "service" ELSE "commit"]]
            /\ wh' = [wh EXCEPT !["fact_plan_costs"] = @ \ old]
            /\ seqs' = [seqs EXCEPT !["fact_plan_cost_key"] = @ + 1]
       ELSE /\ procs' = [procs EXCEPT ![p] = [q EXCEPT !.pc = "rollback"]]
            /\ UNCHANGED <<wh, seqs>>
    /\ UNCHANGED <<plans, tz, events, now>>
    /\ UNCHANGED coordVars

\* loadPlanFacts: one INSERT INTO fact_plan_costs; a value NUMERIC(10,2)
\* rejects makes the statement fail.
LoadPlanFacts(p) ==
    LET q == procs[p]
        plan == q.plans[q.i]
        deductible == OrZero(plan.planCostShares.deductible)
        copay == OrZero(plan.planCostShares.copay)
        totalCostShares == Plus(deductible, copay)
        row == [fact_plan_cost_key |-> seqs["fact_plan_cost_key"] + 1,
                plan_key |-> q.keys.plan_key, plan_type_key |-> q.keys.plan_type_key,
                org_key |-> q.keys.org_key, creation_date_key |-> q.keys.creation_date_key,
                deductible |-> deductible.v, copay |-> copay.v,
                total_cost_shares |-> totalCostShares.v]
    IN
    /\ q.pc = "planfacts"
    /\ IF NumericOk(deductible) /\ NumericOk(copay) /\ NumericOk(totalCostShares)
       THEN LET st == DbWrite(DbOf(q), "fact_plan_costs", {}, {row}) IN
            /\ procs' = [procs EXCEPT ![p] =
                           [q EXCEPT !.tx = st.tx, !.j = 1,
                                     !.pc = IF HasService(plan, 1) THEN "service" ELSE "commit"]]
            /\ wh' = st.wh
            /\ seqs' = [seqs EXCEPT !["fact_plan_cost_key"] = @ + 1]
       ELSE /\ procs' = [procs EXCEPT ![p] = [q EXCEPT !.pc = "rollback"]]
            /\ UNCHANGED <<wh, seqs>>
    /\ UNCHANGED <<plans, tz, events, now>>
    /\ UNCHANGED coordVars

\* loadServiceFacts passing over an entry that has no cost data.
LoadServiceFact_skipNoCost(p) ==
    LET q == procs[p]
        plan == q.plans[q.i]
        serviceData == plan.linkedPlanServices.items[q.j]
        serviceName == OrElseSeq(serviceData.name, UnknownService)
        serviceId == OrElseSeq(serviceData.objectId, Normalize(serviceName))
        existing == {r \in View(q)["dim_service"] : r.service_id = serviceId}
        fresh == [service_key |-> seqs["service_key"] + 1, service_id |-> serviceId,
                  service_name |-> serviceName, service_category |-> "Healthcare Service"]
        serviceDeductible == OrZero(serviceData.cost.deductible)
        serviceCopay == OrZero(serviceData.cost.copay)
        total == Plus(serviceDeductible, serviceCopay)
        accepted == NumericOk(serviceDeductible) /\ NumericOk(serviceCopay) /\ NumericOk(total)
        skipped == serviceData.cost.k = "absent"
    IN
    /\ q.pc = "service"
    /\ \E svc \in (IF existing # {} THEN existing ELSE {fresh}) :
          LET st1 == IF existing # {} THEN DbOf(q)
                     ELSE DbWrite(DbOf(q), "dim_service", {}, {fresh})
              row == [fact_service_cost_key |-> seqs["fact_service_cost_key"] + 1,
                      service_key |-> svc.service_key, plan_key |-> q.keys.plan_key,
                      org_key |-> q.keys.org_key, date_key |-> q.keys.creation_date_key,
                      deductible |-> serviceDeductible.v, copay |-> serviceCopay.v,
                      total_service_cost |-> total.v]
              st2 == IF accepted /\ ~skipped
                     THEN DbWrite(st1, "fact_service_costs", {}, {row}) ELSE st1
          IN
          /\ wh' = st2.wh
          /\ seqs' = [seqs EXCEPT
                        !["service_key"] = IF existing = {} THEN @ + 1 ELSE @,
                        !["fact_service_cost_key"] = IF accepted /\ ~skipped THEN @ + 1 ELSE @]
          /\ procs' = [procs EXCEPT ![p] =
                         IF accepted
                         THEN [q EXCEPT !.tx = st2.tx, !.j = @ + 1,
                                        !.stats.servicesLoaded = @ + 1,
                                        !.pc = IF HasService(plan, q.j + 1)
                                               THEN "service" ELSE "commit"]
                         ELSE [q EXCEPT !.tx = st2.tx, !.pc = "rollback"]]
    /\ UNCHANGED <<plans, tz, events, now>>
    /\ UNCHANGED coordVars

\* loadServiceFacts, one turn of its loop: resolve the service dimension,
\* insert the fact, stats.servicesLoaded++.
LoadServiceFact(p) ==
    LET q == procs[p]
        plan == q.plans[q.i]
        serviceData == plan.linkedPlanServices.items[q.j]
        serviceName == OrElseSeq(serviceData.name, UnknownService)
        serviceId == OrElseSeq(serviceData.objectId, Normalize(serviceName))
        existing == {r \in View(q)["dim_service"] : r.service_id = serviceId}
        fresh == [service_key |-> seqs["service_key"] + 1, service_id |-> serviceId,
                  service_name |-> serviceName, service_category |-> "Healthcare Service"]
        serviceDeductible == OrZero(serviceData.cost.deductible)
        serviceCopay == OrZero(serviceData.cost.copay)
        total == Plus(serviceDeductible, serviceCopay)
        accepted == NumericOk(serviceDeductible) /\ NumericOk(serviceCopay) /\ NumericOk(total)
    IN
    /\ q.pc = "service"
    /\ \E svc \in (IF existing # {} THEN existing ELSE {fresh}) :
          LET st1 == IF existing # {} THEN DbOf(q)
                     ELSE DbWrite(DbOf(q), "dim_service", {}, {fresh})
              row == [fact_service_cost_key |-> seqs["fact_service_cost_key"] + 1,
                      service_key |-> svc.service_key, plan_key |-> q.keys.plan_key,
                      org_key |-> q.keys.org_key, date_key |-> q.keys.creation_date_key,
                      deductible |-> serviceDeductible.v, copay |-> serviceCopay.v,
                      total_service_cost |-> total.v]
              st2 == IF accepted THEN DbWrite(st1, "fact_service_costs", {}, {row}) ELSE st1
          IN
          /\ wh' = st2.wh
          /\ seqs' = [seqs EXCEPT
                        !["service_key"] = IF existing = {} THEN @ + 1 ELSE @,
                        !["fact_service_cost_key"] = IF accepted THEN @ + 1 ELSE @]
          /\ procs' = [procs EXCEPT ![p] =
                         IF accepted
                         THEN [q EXCEPT !.tx = st2.tx, !.j = @ + 1,
                                        !.stats.servicesLoaded = @ + 1,
                                        !.pc = IF HasService(plan, q.j + 1)
                                               THEN "service" ELSE "commit"]
                         ELSE [q EXCEPT !.tx = st2.tx, !.pc = "rollback"]]
    /\ UNCHANGED <<plans, tz, events, now>>
    /\ UNCHANGED coordVars

\* COMMIT without counting the document as loaded.
Commit_noCount(p) ==
    LET q == procs[p] IN
    /\ q.pc = "commit"
    /\ wh' = View(q)
    /\ procs' = [procs EXCEPT ![p] =
                   [q EXCEPT !.inTx = FALSE, !.tx = EmptyDb, !.snap = EmptyDb,
                             !.i = @ + 1, !.pc = NextDoc(q)]]
    /\ Emit("COMMIT", p, q.i)
    /\ UNCHANGED <<plans, tz, seqs, now>>
    /\ UNCHANGED coordVars

\* await client.query('COMMIT'); stats.plansLoaded++
Commit(p) ==
    LET q == procs[p] IN
    /\ q.pc = "commit"
    /\ wh' = View(q)
    /\ procs' = [procs EXCEPT ![p] =
                   [q EXCEPT !.inTx = FALSE, !.tx = EmptyDb, !.snap = EmptyDb,
                             !.stats.plansLoaded = @ + 1,
                             !.i = @ + 1, !.pc = NextDoc(q)]]
    /\ Emit("COMMIT", p, q.i)
    /\ UNCHANGED <<plans, tz, seqs, now>>
    /\ UNCHANGED coordVars

\* The per-document catch rethrowing after the ROLLBACK: the outer catch
\* returns false.
Rollback_rethrow(p) ==
    LET q == procs[p] IN
    /\ q.pc = "rollback"
    /\ procs' = [procs EXCEPT ![p] =
                   [q EXCEPT !.inTx = FALSE, !.tx = EmptyDb, !.snap = EmptyDb,
                             !.stats.errors = @ + 1,
                             !.ret = "false", !.pc = "finally"]]
    /\ Emit("ROLLBACK", p, q.i)
    /\ UNCHANGED <<plans, tz, wh, seqs, now>>
    /\ UNCHANGED coordVars

\* The per-document catch issuing COMMIT instead of ROLLBACK.
Rollback_commits(p) ==
    LET q == procs[p] IN
    /\ q.pc = "rollback"
    /\ wh' = View(q)
    /\ procs' = [procs EXCEPT ![p] =
                   [q EXCEPT !.inTx = FALSE, !.tx = EmptyDb, !.snap = EmptyDb,
                             !.stats.errors = @ + 1,
                             !.i = @ + 1, !.pc = NextDoc(q)]]
    /\ Emit("ROLLBACK", p, q.i)
    /\ UNCHANGED <<plans, tz, seqs, now>>
    /\ UNCHANGED coordVars

\* The per-document catch counting the error without issuing ROLLBACK.
Rollback_skipped(p) ==
    LET q == procs[p] IN
    /\ q.pc = "rollback"
    /\ procs' = [procs EXCEPT ![p] =
                   [q EXCEPT !.stats.errors = @ + 1, !.i = @ + 1, !.pc = NextDoc(q)]]
    /\ UNCHANGED <<plans, tz, wh, seqs, events, now>>
    /\ UNCHANGED coordVars

\* catch (error): await client.query('ROLLBACK'); stats.errors++
Rollback(p) ==
    LET q == procs[p] IN
    /\ q.pc = "rollback"
    /\ procs' = [procs EXCEPT ![p] =
                   [q EXCEPT !.inTx = FALSE, !.tx = EmptyDb, !.snap = EmptyDb,
                             !.stats.errors = @ + 1,
                             !.i = @ + 1, !.pc = NextDoc(q)]]
    /\ Emit("ROLLBACK", p, q.i)
    /\ UNCHANGED <<plans, tz, wh, seqs, now>>
    /\ UNCHANGED coordVars

\* logETLRun deriving the status from the loaded count.
AuditRow_statusFromLoaded(stats, id) ==
    [audit_id |-> id,
     job_name |-> "MongoDB to PostgreSQL ETL", job_type |-> "FULL_LOAD",
     start_time |-> ToDate(stats.startTime),
     end_time |-> ToDate(stats.endTime),
     status |-> IF stats.plansLoaded > 0 THEN "SUCCESS" ELSE "PARTIAL_SUCCESS",
     records_processed |-> stats.plansExtracted,
     records_inserted |-> stats.plansLoaded,
     records_updated |-> 0,
     records_failed |-> stats.errors,
     error_message |-> IF stats.errors > 0 THEN <<stats.errors>> ELSE <<>>]

\* logETLRun's row, from the stats as they are when it is called.
AuditRow(stats, id) ==
    [audit_id |-> id,
     job_name |-> "MongoDB to PostgreSQL ETL", job_type |-> "FULL_LOAD",
     start_time |-> ToDate(stats.startTime),
     end_time |-> ToDate(stats.endTime),
     status |-> IF stats.errors = 0 THEN "SUCCESS" ELSE "PARTIAL_SUCCESS",
     records_processed |-> stats.plansExtracted,
     records_inserted |-> stats.plansLoaded,
     records_updated |-> 0,
     records_failed |-> stats.errors,
     \* `${stats.errors} plans failed to load`, or null
     error_message |-> IF stats.errors > 0 THEN <<stats.errors>> ELSE <<>>]

\* The audit skipped when no document was loaded.
LogETLRun_onlyIfLoaded(p) ==
    LET q == procs[p]
        row == AuditRow(q.stats, seqs["audit_id"] + 1)
        st == DbWrite(DbOf(q), "etl_audit_log", {}, {row})
    IN
    /\ q.pc = "audit"
    /\ IF q.stats.plansLoaded > 0
       THEN /\ wh' = st.wh
            /\ seqs' = [seqs EXCEPT !["audit_id"] = @ + 1]
            /\ procs' = [procs EXCEPT ![p] = [q EXCEPT !.tx = st.tx, !.auditId = row.audit_id,
                                                        !.pc = "setEnd"]]
            /\ Emit("AUDIT", p, 0)
       ELSE /\ procs' = [procs EXCEPT ![p] = [q EXCEPT !.pc = "setEnd"]]
            /\ UNCHANGED <<wh, seqs, events>>
    /\ UNCHANGED <<plans, tz, now>>
    /\ UNCHANGED coordVars

\* await logETLRun(client)
LogETLRun(p) ==
    LET q == procs[p]
        row == AuditRow(q.stats, seqs["audit_id"] + 1)
        st == DbWrite(DbOf(q), "etl_audit_log", {}, {row})
    IN
    /\ q.pc = "audit"
    /\ wh' = st.wh
    /\ seqs' = [seqs EXCEPT !["audit_id"] = @ + 1]
    /\ procs' = [procs EXCEPT ![p] = [q EXCEPT !.tx = st.tx, !.auditId = row.audit_id,
                                                  !.pc = "setEnd"]]
    /\ Emit("AUDIT", p, 0)
    /\ UNCHANGED <<plans, tz, now>>
    /\ UNCHANGED coordVars

\* await logETLRun(client) rejects (the INSERT fails): the outer catch
\* prints "ETL failed" and returns false; stats.endTime is never set.  The
\* failed statement may or may not have drawn a value of the sequence.
LogETLRunFails(p) ==
    LET q == procs[p] IN
    /\ q.pc = "audit"
    /\ procs' = [procs EXCEPT ![p] = [q EXCEPT !.ret = "false", !.pc = "finally"]]
    /\ \E drawn \in BOOLEAN :
          seqs' = [seqs EXCEPT !["audit_id"] = IF drawn THEN @ + 1 ELSE @]
    /\ UNCHANGED <<plans, tz, wh, events, now>>
    /\ UNCHANGED coordVars

\* stats.endTime = Date.now(); the statistics are printed and the try
\* block ends without a return statement.
SetEndTime(p) ==
    /\ procs[p].pc = "setEnd"
    /\ \E t \in {x \in 1..MaxClock : ClockRead(x)} :
          /\ now' = t
          /\ procs' = [procs EXCEPT ![p] =
                         [@ EXCEPT !.stats.endTime = <<t>>, !.ret = "undefined",
                                   !.pc = "finally"]]
    /\ UNCHANGED <<plans, tz, wh, seqs, events>>
    /\ UNCHANGED coordVars

\* The clean-up placed at the end of the try block instead of in finally.
Finally_onlyOnSuccess(p) ==
    LET q == procs[p] IN
    /\ q.pc = "finally"
    /\ procs' = [procs EXCEPT ![p] =
                   IF q.ret = "undefined"
                   THEN [q EXCEPT !.released = IF q.client THEN @ + 1 ELSE @,
                                  !.pool = "ended", !.mongoose = "closed", !.pc = "exit"]
                   ELSE [q EXCEPT !.pc = "exit"]]
    /\ UNCHANGED <<plans, tz, wh, seqs, events, now>>
    /\ UNCHANGED coordVars

\* finally: client.release() if a client was checked out, pgPool.end(),
\* mongoose.connection.close().
Finally(p) ==
    LET q == procs[p] IN
    /\ q.pc = "finally"
    /\ procs' = [procs EXCEPT ![p] =
                   [q EXCEPT !.released = IF q.client THEN @ + 1 ELSE @,
                             !.pool = "ended", !.mongoose = "closed", !.pc = "exit"]]
    /\ UNCHANGED <<plans, tz, wh, seqs, events, now>>
    /\ UNCHANGED coordVars

\* The event loop drains and the process ends; of its memory the record
\* keeps the counters, the return value and the handles' final state.
ProcessExit(p) ==
    /\ procs[p].pc = "exit"
    /\ procs' = [procs EXCEPT ![p] =
                   [@ EXCEPT !.exitCode = ProcessExitCode(procs[p].ret), !.pc = "exited",
                             !.plans = <<>>, !.keys = NoKeys,
                             !.stats.startTime = <<>>, !.stats.endTime = <<>>]]
    /\ UNCHANGED <<plans, tz, wh, seqs, events, now>>
    /\ UNCHANGED coordVars

(***************************************************************************)
(* The statements of loadDimensions and loadServiceFacts one at a time,    *)
(* for runs whose statements interleave.  PostgreSQL runs each statement   *)
(* at READ COMMITTED: a SELECT sees the rows committed when it starts and  *)
(* the rows of its own transaction; an INSERT whose unique key is held by  *)
(* a row another open transaction wrote waits for that transaction to end. *)
(***************************************************************************)
\* Rows written by the open transactions of the other processes.
OthersTx(p, t) ==
    UNION {procs[r].tx[t] : r \in {x \in 1..Len(procs) : x # p /\ procs[x].inTx}}

\* The statement of p must wait: another open transaction holds natural
\* key nk of the uniquely indexed table t.
Blocked(p, t, nk) == \E r \in OthersTx(p, t) : NatKey(t, r) = nk

\* INSERT INTO dim_organization ... ON CONFLICT (org_id) DO UPDATE
UpsertOrganization(p) ==
    /\ procs[p].pc = "org"
    /\ ~Blocked(p, "dim_organization",
                OrElseStr(procs[p].plans[procs[p].i]._org, "unknown"))
    /\ LoadOrganization(p)

\* SELECT plan_type_key FROM dim_plan_type WHERE plan_type_code = $1
SelectPlanType(p) ==
    LET q == procs[p]
        planTypeCode == Normalize(OrElseSeq(q.plans[q.i].planType, Unknown))
        existing == {r \in View(q)["dim_plan_type"] : r.plan_type_code = planTypeCode}
    IN
    /\ q.pc = "ptype"
    /\ IF existing # {}
       THEN \E r \in existing :
               procs' = [procs EXCEPT ![p] =
                           [q EXCEPT !.keys.plan_type_key = r.plan_type_key, !.pc = "date"]]
       ELSE procs' = [procs EXCEPT ![p] = [q EXCEPT !.pc = "ptypeInsert"]]
    /\ UNCHANGED <<plans, tz, wh, seqs, events, now>>
    /\ UNCHANGED coordVars

\* INSERT INTO dim_plan_type ... RETURNING plan_type_key: a unique
\* violation if the code was committed since the SELECT.
InsertPlanType(p) ==
    LET q == procs[p]
        planType == OrElseSeq(q.plans[q.i].planType, Unknown)
        planTypeCode == Normalize(planType)
        existing == {r \in View(q)["dim_plan_type"] : r.plan_type_code = planTypeCode}
        fresh == [plan_type_key |-> seqs["plan_type_key"] + 1,
                  plan_type_code |-> planTypeCode, plan_type_name |-> planType]
        st == DbWrite(DbOf(q), "dim_plan_type", {}, {fresh})
    IN
    /\ q.pc = "ptypeInsert"
    /\ ~Blocked(p, "dim_plan_type", planTypeCode)
    /\ seqs' = [seqs EXCEPT !["plan_type_key"] = @ + 1]
    /\ IF existing # {}
       THEN /\ procs' = [procs EXCEPT ![p] = [q EXCEPT !.pc = "rollback"]]
            /\ UNCHANGED wh
       ELSE /\ procs' = [procs EXCEPT ![p] =
                           [q EXCEPT !.tx = st.tx, !.keys.plan_type_key = fresh.plan_type_key,
                                     !.pc = "date"]]
            /\ wh' = st.wh
    /\ UNCHANGED <<plans, tz, events, now>>
    /\ UNCHANGED coordVars

\* getOrCreateDateKey, first statement: SELECT date_key FROM dim_date
\* WHERE date_value = $1.  toISOString() throws on an invalid date.
SelectDate(p) ==
    LET q == procs[p]
        plan == q.plans[q.i]
    IN
    /\ q.pc = "date"
    /\ \E t \in (IF plan.creationDate.k = "absent" THEN NowInstants ELSE {plan.creationDate}) :
          IF t.k = "invalid"
          THEN procs' = [procs EXCEPT ![p] = [q EXCEPT !.pc = "rollback"]]
          ELSE LET existing == {r \in View(q)["dim_date"] : r.date_value = dateStr(t)} IN
               IF existing # {}
               THEN \E r \in existing :
                       procs' = [procs EXCEPT ![p] =
                                   [q EXCEPT !.keys.creation_date_key = r.date_key,
                                             !.pc = "plan"]]
               ELSE procs' = [procs EXCEPT ![p] = [q EXCEPT !.pc = "dateInsert"]]
    /\ UNCHANGED <<plans, tz, wh, seqs, events, now>>
    /\ UNCHANGED coordVars

\* getOrCreateDateKey, INSERT INTO dim_date ... ON CONFLICT (date_value)
\* DO NOTHING RETURNING date_key, and the second SELECT when no row comes
\* back.
InsertDate(p) ==
    LET q == procs[p]
        plan == q.plans[q.i]
    IN
    /\ q.pc = "dateInsert"
    /\ \E t \in (IF plan.creationDate.k = "absent" THEN NowInstants ELSE {plan.creationDate}) :
          LET existing == {r \in View(q)["dim_date"] : r.date_value = dateStr(t)}
              row == DateRow(t, tz)
              st == DbWrite(DbOf(q), "dim_date", {}, {row})
          IN
          /\ ~Blocked(p, "dim_date", dateStr(t))
          /\ IF existing # {}
             THEN /\ \E r \in existing :
                       procs' = [procs EXCEPT ![p] =
                                   [q EXCEPT !.keys.creation_date_key = r.date_key,
                                             !.pc = "plan"]]
                  /\ UNCHANGED wh
             ELSE /\ procs' = [procs EXCEPT ![p] =
                                 [q EXCEPT !.tx = st.tx, !.keys.creation_date_key = row.date_key,
                                           !.pc = "plan"]]
                  /\ wh' = st.wh
    /\ UNCHANGED <<plans, tz, seqs, events, now>>
    /\ UNCHANGED coordVars

\* SELECT plan_key FROM dim_plan WHERE plan_id = $1; rows[0] of the answer.
SelectPlan(p) ==
    LET q == procs[p]
        planId == OrElseStr(q.plans[q.i].objectId, q.plans[q.i]._id)
        existing == {r \in View(q)["dim_plan"] : r.plan_id = planId}
    IN
    /\ q.pc = "plan"
    /\ IF existing # {}
       THEN \E r \in existing :
               procs' = [procs EXCEPT ![p] =
                           [q EXCEPT !.keys.plan_key = r.plan_key, !.pc = "planfacts"]]
       ELSE procs' = [procs EXCEPT ![p] = [q EXCEPT !.pc = "planInsert"]]
    /\ UNCHANGED <<plans, tz, wh, seqs, events, now>>
    /\ UNCHANGED coordVars

\* INSERT INTO dim_plan ... RETURNING plan_key; plan_id has no unique
\* index, so the statement neither waits nor fails.
InsertPlan(p) ==
    LET q == procs[p]
        plan == q.plans[q.i]
        fresh == [plan_key |-> seqs["plan_key"] + 1,
                  plan_id |-> OrElseStr(plan.objectId, plan._id),
                  plan_type_key |-> q.keys.plan_type_key, org_key |-> q.keys.org_key,
                  is_current |-> TRUE, effective_date |-> EffectiveDate(plan, tz),
                  expiration_date |-> <<>>]
        st == DbWrite(DbOf(q), "dim_plan", {}, {fresh})
    IN
    /\ q.pc = "planInsert"
    /\ procs' = [procs EXCEPT ![p] =
                   [q EXCEPT !.tx = st.tx, !.keys.plan_key = fresh.plan_key,
                             !.pc = "planfacts"]]
    /\ wh' = st.wh
    /\ seqs' = [seqs EXCEPT !["plan_key"] = @ + 1]
    /\ UNCHANGED <<plans, tz, events, now>>
    /\ UNCHANGED coordVars

\* The service_id loadServiceFacts derives from a linked-service entry.
ServiceIdOf(serviceData) ==
    OrElseSeq(serviceData.objectId, Normalize(OrElseSeq(serviceData.name, UnknownService)))

\* SELECT service_key FROM dim_service WHERE service_id = $1
SelectService(p) ==
    LET q == procs[p]
        serviceId == ServiceIdOf(q.plans[q.i].linkedPlanServices.items[q.j])
        existing == {r \in View(q)["dim_service"] : r.service_id = serviceId}
    IN
    /\ q.pc = "service"
    /\ IF existing # {}
       THEN \E r \in existing :
               procs' = [procs EXCEPT ![p] =
                           [q EXCEPT !.serviceKey = r.service_key, !.pc = "serviceFact"]]
       ELSE procs' = [procs EXCEPT ![p] = [q EXCEPT !.pc = "serviceInsert"]]
    /\ UNCHANGED <<plans, tz, wh, seqs, events, now>>
    /\ UNCHANGED coordVars

\* INSERT INTO dim_service ... RETURNING service_key: a unique violation if
\* the service was committed since the SELECT.
InsertService(p) ==
    LET q == procs[p]
        serviceData == q.plans[q.i].linkedPlanServices.items[q.j]
        serviceId == ServiceIdOf(serviceData)
        existing == {r \in View(q)["dim_service"] : r.service_id = serviceId}
        fresh == [service_key |-> seqs["service_key"] + 1, service_id |-> serviceId,
                  service_name |-> OrElseSeq(serviceData.name, UnknownService),
                  service_category |-> "Healthcare Service"]
        st == DbWrite(DbOf(q), "dim_service", {}, {fresh})
    IN
    /\ q.pc = "serviceInsert"
    /\ ~Blocked(p, "dim_service", serviceId)
    /\ seqs' = [seqs EXCEPT !["service_key"] = @ + 1]
    /\ IF existing # {}
       THEN /\ procs' = [procs EXCEPT ![p] = [q EXCEPT !.pc = "rollback"]]
            /\ UNCHANGED wh
       ELSE /\ procs' = [procs EXCEPT ![p] =
                           [q EXCEPT !.tx = st.tx, !.serviceKey = fresh.service_key,
                                     !.pc = "serviceFact"]]
            /\ wh' = st.wh
    /\ UNCHANGED <<plans, tz, events, now>>
    /\ UNCHANGED coordVars

\* INSERT INTO fact_service_costs ...; stats.servicesLoaded++
InsertServiceFact(p) ==
    LET q == procs[p]
        plan == q.plans[q.i]
        serviceData == plan.linkedPlanServices.items[q.j]
        serviceDeductible == OrZero(serviceData.cost.deductible)
        serviceCopay == OrZero(serviceData.cost.copay)
        total == Plus(serviceDeductible, serviceCopay)
        row == [fact_service_cost_key |-> seqs["fact_service_cost_key"] + 1,
                service_key |-> q.serviceKey, plan_key |-> q.keys.plan_key,
                org_key |-> q.keys.org_key, date_key |-> q.keys.creation_date_key,
                deductible |-> serviceDeductible.v, copay |-> serviceCopay.v,
                total_service_cost |-> total.v]
        st == DbWrite(DbOf(q), "fact_service_costs", {}, {row})
    IN
    /\ q.pc = "serviceFact"
    /\ IF NumericOk(serviceDeductible) /\ NumericOk(serviceCopay) /\ NumericOk(total)
       THEN /\ procs' = [procs EXCEPT ![p] =
                           [q EXCEPT !.tx = st.tx, !.j = @ + 1, !.serviceKey = 0,
                                     !.stats.servicesLoaded = @ + 1,
                                     !.pc = IF HasService(plan, q.j + 1)
                                            THEN "service" ELSE "commit"]]
            /\ wh' = st.wh
            /\ seqs' = [seqs EXCEPT !["fact_service_cost_key"] = @ + 1]
       ELSE /\ procs' = [procs EXCEPT ![p] = [q EXCEPT !.serviceKey = 0, !.pc = "rollback"]]
            /\ UNCHANGED <<wh, seqs>>
    /\ UNCHANGED <<plans, tz, events, now>>
    /\ UNCHANGED coordVars

(***************************************************************************)
(* The watcher                                                             *)
(***************************************************************************)
\* Children whose 'close' event has not been handled yet.
InFlight == {c \in 1..Len(children) : children[c].st # "closed"}

\* A spawn failure is reported by 'error' and 'close' emitted back to back
\* from one process.nextTick callback, before any timer or I/O callback.
TickBusy == \E c \in 1..Len(children) : children[c].st \in {"spawnfail", "errored"}

\* runETL without `etlRunning = true`.
runETL_noFlag(t, ok) ==
    IF etlRunning
    THEN /\ etlQueue' = Append(etlQueue, t)
         /\ UNCHANGED <<etlRunning, children>>
    ELSE /\ children' = Append(children, [st |-> IF ok THEN "running" ELSE "spawnfail"])
         /\ UNCHANGED <<etlRunning, etlQueue>>

\* function runETL() of the watcher, called at time t; ok says whether
\* spawn() can create the process.
runETL(t, ok) ==
    IF etlRunning
    THEN /\ etlQueue' = Append(etlQueue, t)
         /\ UNCHANGED <<etlRunning, children>>
    ELSE /\ etlRunning' = TRUE
         /\ children' = Append(children, [st |-> IF ok THEN "running" ELSE "spawnfail"])
         /\ UNCHANGED etlQueue

\* setupChangeStream(): registers the handlers, then the initial runETL().
Setup ==
    /\ ~watching
    /\ watching' = TRUE
    /\ \E t \in {x \in 1..MaxClock : ClockRead(x)}, ok \in BOOLEAN :
          /\ now' = t
          /\ runETL(t, ok)
    /\ UNCHANGED <<timers, noteLog, closeLog>>
    /\ UNCHANGED stream
    /\ UNCHANGED etlVars

\* The change handler starting a run on every notification.
Change_alwaysSpawn ==
    /\ watching
    /\ ~TickBusy
    /\ Len(noteLog) < MaxNotify
    /\ \E t \in {x \in 1..MaxClock : ClockRead(x)}, ok \in BOOLEAN :
          /\ now' = t
          /\ etlRunning' = TRUE
          /\ children' = Append(children, [st |-> IF ok THEN "running" ELSE "spawnfail"])
          /\ UNCHANGED etlQueue
    /\ noteLog' = Append(noteLog, [run |-> Len(children), queued |-> etlRunning,
                                 threw |-> FALSE])
    /\ UNCHANGED <<timers, watching, closeLog>>
    /\ UNCHANGED stream
    /\ UNCHANGED etlVars

\* The body of the 'change' handler: logs the change and calls runETL().
onChange ==
    /\ Len(noteLog) < MaxNotify
    /\ \E t \in {x \in 1..MaxClock : ClockRead(x)}, ok \in BOOLEAN :
          /\ now' = t
          /\ runETL(t, ok)
    /\ noteLog' = Append(noteLog, [run |-> Len(children), queued |-> etlRunning,
                                   threw |-> FALSE])

\* changeStream.on('change', ...): a change notification is delivered.
Change ==
    /\ watching
    /\ ~TickBusy
    /\ onChange
    /\ UNCHANGED <<timers, watching, closeLog>>
    /\ UNCHANGED stream
    /\ UNCHANGED etlVars

\* Operations on the plans collection that produce a change event, and the
\* $match stage of Plan.watch([...]).
OperationTypes == {"insert", "update", "replace", "delete"}

\* Plan.watch() without a pipeline.
Matches_noFilter(op) == TRUE

Matches(op) == op \in {"insert", "update", "replace"}

\* The collection changes by an operation of type op: the server puts the
\* event through the $match stage, and the 'change' handler runs for an
\* event that passes.
StoreEvent(op) ==
    /\ watching /\ stream.alive /\ ~stream.closed
    /\ ~TickBusy
    /\ IF Matches(op)
       THEN onChange
       ELSE UNCHANGED <<etlRunning, etlQueue, children, noteLog, now>>
    /\ stream' = [stream EXCEPT !.lastOp = op]
    /\ UNCHANGED <<timers, watching, closeLog>>
    /\ UNCHANGED etlVars

\* A debounce timer expires: setTimeout's callback is runETL itself.
TimerFire ==
    /\ Len(timers) > 0
    /\ ~TickBusy
    /\ timers' = Tail(timers)
    /\ \E t \in {x \in 1..MaxClock : ClockRead(x)}, ok \in BOOLEAN :
          /\ now' = t
          /\ runETL(t, ok)
    /\ UNCHANGED <<watching, noteLog, closeLog>>
    /\ UNCHANGED stream
    /\ UNCHANGED etlVars

\* The close handler scheduling one follow-up per queued trigger.
onClose_perEntry(c, code) ==
    /\ etlRunning' = FALSE
    /\ IF Len(etlQueue) > 0
       THEN /\ etlQueue' = <<>>
            /\ timers' = timers \o [n \in 1..Len(etlQueue) |-> DebounceDelayMs]
       ELSE UNCHANGED <<etlQueue, timers>>

\* The close handler emptying the queue without scheduling a follow-up.
onClose_dropsQueue(c, code) ==
    /\ etlRunning' = FALSE
    /\ etlQueue' = <<>>
    /\ UNCHANGED timers

\* The close handler following up only a run that ended with code 0.
onClose_ifSucceeded(c, code) ==
    /\ etlRunning' = FALSE
    /\ IF Len(etlQueue) > 0 /\ code = 0
       THEN /\ etlQueue' = <<>>
            /\ timers' = Append(timers, DebounceDelayMs)
       ELSE UNCHANGED <<etlQueue, timers>>

\* etlProcess.on('close', (code) => ...)
onClose(c, code) ==
    /\ etlRunning' = FALSE
    /\ IF Len(etlQueue) > 0
       THEN /\ etlQueue' = <<>>
            /\ timers' = Append(timers, DebounceDelayMs)
       ELSE UNCHANGED <<etlQueue, timers>>

\* etlProcess.on('error', (error) => ...)
onError(c) ==
    /\ etlRunning' = FALSE
    /\ UNCHANGED <<etlQueue, timers>>

\* The pipeline process of child c ends; the watcher gets 'close'.
ChildExit(c) ==
    /\ children[c].st = "running"
    /\ ~TickBusy
    /\ \E o \in RunOutcomes :
          LET code == ProcessExitCode(RunReturn(o)) IN
          /\ onClose(c, code)
          /\ closeLog' = Append(closeLog, [child |-> c, outcome |-> o, code |-> code,
                                           pending |-> Len(etlQueue)])
    /\ children' = [children EXCEPT ![c].st = "closed"]
    /\ UNCHANGED <<watching, noteLog, now>>
    /\ UNCHANGED stream
    /\ UNCHANGED etlVars

\* The pipeline process of child c dies before runETL can return: node
\* cannot load the script or one of its modules and exits with status 1.
ChildCrash(c) ==
    /\ children[c].st = "running"
    /\ ~TickBusy
    /\ onClose(c, 1)
    /\ closeLog' = Append(closeLog, [child |-> c, outcome |-> "crashed", code |-> 1,
                                     pending |-> Len(etlQueue)])
    /\ children' = [children EXCEPT ![c].st = "closed"]
    /\ UNCHANGED <<watching, noteLog, now>>
    /\ UNCHANGED stream
    /\ UNCHANGED etlVars

\* spawn() failed: 'error' ...
ChildSpawnError(c) ==
    /\ children[c].st = "spawnfail"
    /\ onError(c)
    /\ children' = [children EXCEPT ![c].st = "errored"]
    /\ UNCHANGED <<watching, noteLog, closeLog, now>>
    /\ UNCHANGED stream
    /\ UNCHANGED etlVars

\* ... and then 'close' with the negative errno as code.
ChildSpawnClose(c) ==
    /\ children[c].st = "errored"
    /\ \E code \in SpawnErrnos :
          /\ onClose(c, code)
          /\ closeLog' = Append(closeLog, [child |-> c, outcome |-> "spawnError", code |-> code,
                                           pending |-> Len(etlQueue)])
    /\ children' = [children EXCEPT ![c].st = "closed"]
    /\ UNCHANGED <<watching, noteLog, now>>
    /\ UNCHANGED stream
    /\ UNCHANGED etlVars

\* The watcher process is running, its change stream has not failed, no
\* reconnect is scheduled and no setupChangeStream call is waiting.
StreamStart ==
    [alive |-> TRUE, closed |-> FALSE, reconnects |-> <<>>, waiting |-> 0,
     lastOp |-> "none"]   \* history: type of the latest operation on the collection

\* The 'error' handler ending the process, as the catch of
\* setupChangeStream does.
onStreamError_exits ==
    /\ watching /\ stream.alive /\ ~stream.closed
    /\ ~TickBusy
    /\ stream' = [stream EXCEPT !.closed = TRUE, !.alive = FALSE]
    /\ UNCHANGED <<etlRunning, etlQueue, timers, children, watching, noteLog, closeLog, now>>
    /\ UNCHANGED etlVars

\* changeStream.on('error', ...): the stream has failed and is closed; the
\* handler logs and schedules setupChangeStream in 5000 ms.
onStreamError ==
    /\ watching /\ stream.alive /\ ~stream.closed
    /\ ~TickBusy
    /\ stream' = [stream EXCEPT !.closed = TRUE,
                                !.reconnects = Append(@, ReconnectDelayMs)]
    /\ UNCHANGED <<etlRunning, etlQueue, timers, children, watching, noteLog, closeLog, now>>
    /\ UNCHANGED etlVars

\* The reconnect timer expires: setupChangeStream() is called and runs up
\* to its await on the connection's 'open' / 'error'.
ReconnectFire ==
    /\ stream.alive /\ Len(stream.reconnects) > 0
    /\ ~TickBusy
    /\ stream' = [stream EXCEPT !.reconnects = Tail(@), !.waiting = @ + 1]
    /\ UNCHANGED <<etlRunning, etlQueue, timers, children, watching, noteLog, closeLog, now>>
    /\ UNCHANGED etlVars

\* The connection emits 'error' while a setupChangeStream call waits: the
\* promise rejects and the catch calls process.exit(1).
OpenRejected ==
    /\ stream.alive /\ stream.waiting > 0
    /\ ~TickBusy
    /\ stream' = [stream EXCEPT !.alive = FALSE]
    /\ UNCHANGED <<etlRunning, etlQueue, timers, children, watching, noteLog, closeLog, now>>
    /\ UNCHANGED etlVars

\* The 'change' handler throws.  Nothing in it or in runETL catches: the
\* exception leaves the emitter and reaches process.on('uncaughtException'),
\* which logs and lets the process continue.  A throw can come from the
\* logging at the top of the handler, before runETL is called, or from
\* spawn(), which throws on the errors it does not report by 'error'
\* (ENOMEM, E2BIG, ...): runETL has then set etlRunning and has neither a
\* child nor handlers for one.
ChangeThrows ==
    /\ watching /\ stream.alive /\ ~stream.closed
    /\ ~TickBusy
    /\ Len(noteLog) < MaxNotify
    /\ \E at \in {"log", "spawn"} :
          IF at = "log"
          THEN UNCHANGED etlRunning
          ELSE ~etlRunning /\ etlRunning' = TRUE
    /\ noteLog' = Append(noteLog, [run |-> Len(children), queued |-> etlRunning,
                                   threw |-> TRUE])
    /\ UNCHANGED <<etlQueue, timers, children, watching, closeLog, stream, now>>
    /\ UNCHANGED etlVars

\* spawn() throws in the runETL a debounce timer called: the same path to
\* the uncaughtException handler.
TimerFireThrows ==
    /\ stream.alive /\ Len(timers) > 0
    /\ ~TickBusy
    /\ ~etlRunning
    /\ timers' = Tail(timers)
    /\ etlRunning' = TRUE
    /\ UNCHANGED <<etlQueue, children, watching, noteLog, closeLog, stream, now>>
    /\ UNCHANGED etlVars

\* spawn() throws in the initial runETL of setupChangeStream: that call is
\* inside the try, whose catch ends the process.
SetupThrows ==
    /\ ~watching /\ stream.alive
    /\ watching' = TRUE
    /\ etlRunning' = TRUE
    /\ stream' = [stream EXCEPT !.alive = FALSE]
    /\ UNCHANGED <<etlQueue, timers, children, noteLog, closeLog, now>>
    /\ UNCHANGED etlVars

\* The other half of the state, untouched by a specification.
CoordIdle ==
    /\ etlRunning = FALSE
    /\ etlQueue = <<>>
    /\ timers = <<>>
    /\ children = <<>>
    /\ watching = FALSE
    /\ noteLog = <<>>
    /\ closeLog = <<>>
    /\ stream = StreamStart

EtlIdle ==
    /\ plans = <<>>
    /\ tz = 0
    /\ procs = <<>>
    /\ wh = EmptyDb
    /\ seqs = [s \in Serials |-> 0]
    /\ events = <<>>

(***************************************************************************)
(* SpecCoord: the watcher                                                  *)
(***************************************************************************)
CoordInit ==
    /\ CoordIdle
    /\ EtlIdle
    /\ now = 1

CoordNext ==
    \/ Setup
    \/ Change
    \/ TimerFire
    \/ \E c \in 1..Len(children) : ChildExit(c)
    \/ \E c \in 1..Len(children) : ChildSpawnError(c)
    \/ \E c \in 1..Len(children) : ChildSpawnClose(c)

SpecCoord == CoordInit /\ [][CoordNext]_vars

(***************************************************************************)
(* SpecLive: SpecCoord with the scheduling Node provides: a timer that is  *)
(* due fires, a child process that was spawned ends, and the 'error' and   *)
(* 'close' of a failed spawn are emitted                                   *)
(***************************************************************************)
SpecLive ==
    /\ SpecCoord
    /\ WF_vars(TimerFire)
    /\ WF_vars(\E c \in 1..Len(children) : ChildExit(c))
    /\ WF_vars(\E c \in 1..Len(children) : ChildSpawnError(c))
    /\ WF_vars(\E c \in 1..Len(children) : ChildSpawnClose(c))

(***************************************************************************)
(* SpecCrash: SpecCoord with pipeline processes that may die with a        *)
(* non-zero status                                                         *)
(***************************************************************************)
CrashNext ==
    \/ CoordNext
    \/ \E c \in 1..Len(children) : ChildCrash(c)

SpecCrash == CoordInit /\ [][CrashNext]_vars

(***************************************************************************)
(* SpecStream: the watcher with a change stream that can fail              *)
(***************************************************************************)
StreamNext ==
    \/ stream.alive /\ Setup
    \/ stream.alive /\ ~stream.closed /\ Change
    \/ stream.alive /\ TimerFire
    \/ \E c \in 1..Len(children) : stream.alive /\ ChildExit(c)
    \/ \E c \in 1..Len(children) : stream.alive /\ ChildSpawnError(c)
    \/ \E c \in 1..Len(children) : stream.alive /\ ChildSpawnClose(c)
    \/ onStreamError
    \/ ReconnectFire
    \/ OpenRejected

SpecStream == CoordInit /\ [][StreamNext]_vars

(***************************************************************************)
(* SpecReconnect: SpecStream while the document store stays reachable: the *)
(* connection made at start-up stays open and emits neither 'error' nor a  *)
(* second 'open'.  A setupChangeStream call made by the reconnect timer    *)
(* registers once('open') and once('error') on that connection and awaits; *)
(* no step resumes it.  Timers fire and child processes end.               *)
(***************************************************************************)
ReconnectNext ==
    \/ Setup
    \/ ~stream.closed /\ Change
    \/ TimerFire
    \/ \E c \in 1..Len(children) : ChildExit(c)
    \/ \E c \in 1..Len(children) : ChildSpawnError(c)
    \/ \E c \in 1..Len(children) : ChildSpawnClose(c)
    \/ onStreamError
    \/ ReconnectFire

SpecReconnect ==
    /\ CoordInit /\ [][ReconnectNext]_vars
    /\ WF_vars(ReconnectFire)
    /\ WF_vars(TimerFire)
    /\ WF_vars(\E c \in 1..Len(children) : ChildExit(c))
    /\ WF_vars(\E c \in 1..Len(children) : ChildSpawnError(c))
    /\ WF_vars(\E c \in 1..Len(children) : ChildSpawnClose(c))

(***************************************************************************)
(* SpecOps: the watcher fed by the operations on the collection            *)
(***************************************************************************)
OpsNext ==
    \/ Setup
    \/ \E op \in OperationTypes : StoreEvent(op)
    \/ TimerFire
    \/ \E c \in 1..Len(children) : ChildExit(c)
    \/ \E c \in 1..Len(children) : ChildSpawnError(c)
    \/ \E c \in 1..Len(children) : ChildSpawnClose(c)

SpecOps == CoordInit /\ [][OpsNext]_vars

(***************************************************************************)
(* SpecThrows: the watcher with handlers that can throw                    *)
(***************************************************************************)
ThrowsNext ==
    \/ stream.alive /\ Setup
    \/ stream.alive /\ Change
    \/ stream.alive /\ TimerFire
    \/ \E c \in 1..Len(children) : stream.alive /\ ChildExit(c)
    \/ \E c \in 1..Len(children) : stream.alive /\ ChildSpawnError(c)
    \/ \E c \in 1..Len(children) : stream.alive /\ ChildSpawnClose(c)
    \/ ChangeThrows
    \/ TimerFireThrows
    \/ SetupThrows

SpecThrows == CoordInit /\ [][ThrowsNext]_vars

(***************************************************************************)
(* SpecETL: pipeline runs, one at a time, over a fixed collection          *)
(***************************************************************************)
\* Collections of up to MaxDocs documents; _id is unique in a collection.
DocSeqs ==
    {c \in UNION {[1..n -> DocSet] : n \in 0..MaxDocs} :
        \A a, b \in 1..Len(c) : a # b => c[a]._id # c[b]._id}

EtlInit ==
    /\ CoordIdle
    /\ plans \in DocSeqs
    /\ tz \in HostOffsets
    /\ procs = <<>>
    /\ wh = EmptyDb
    /\ seqs = [s \in Serials |-> 0]
    /\ events = <<>>
    /\ now = 1

EtlNext ==
    \/ StartRun(1)
    \/ \E p \in 1..Len(procs) : ConnectMongo(p)
    \/ \E p \in 1..Len(procs) : ConnectPg(p)
    \/ \E p \in 1..Len(procs) : Extract(p)
    \/ \E p \in 1..Len(procs) : Begin(p)
    \/ \E p \in 1..Len(procs) : LoadOrganization(p)
    \/ \E p \in 1..Len(procs) : LoadPlanType(p)
    \/ \E p \in 1..Len(procs) : LoadDate(p)
    \/ \E p \in 1..Len(procs) : LoadPlan(p)
    \/ \E p \in 1..Len(procs) : LoadPlanFacts(p)
    \/ \E p \in 1..Len(procs) : LoadServiceFact(p)
    \/ \E p \in 1..Len(procs) : Commit(p)
    \/ \E p \in 1..Len(procs) : Rollback(p)
    \/ \E p \in 1..Len(procs) : LogETLRun(p)
    \/ \E p \in 1..Len(procs) : SetEndTime(p)
    \/ \E p \in 1..Len(procs) : Finally(p)
    \/ \E p \in 1..Len(procs) : ProcessExit(p)

SpecETL == EtlInit /\ [][EtlNext]_vars

(***************************************************************************)
(* SpecFaults: SpecETL plus a failing audit insert                         *)
(***************************************************************************)
FaultNext ==
    \/ EtlNext
    \/ \E p \in 1..Len(procs) : LogETLRunFails(p)

SpecFaults == EtlInit /\ [][FaultNext]_vars

(***************************************************************************)
(* SpecRace: two pipeline processes at a time (one started by hand while   *)
(* the watcher's run is in flight), statement by statement, over one       *)
(* document that the API may update between and during the runs            *)
(***************************************************************************)
\* A document that loads without error when it is loaded alone, whatever
\* the day of the run.
WellFormed(d) ==
    /\ d.objectId # "" /\ d._org # "" /\ d.planType # <<>>
    /\ d.creationDate.k = "date"
    /\ d.planCostShares.deductible.k \in {"num", "absent"}
    /\ d.planCostShares.copay.k \in {"num", "absent"}
    /\ d.linkedPlanServices.k = "list" =>
          \A n \in 1..Len(d.linkedPlanServices.items) :
              /\ d.linkedPlanServices.items[n].cost.deductible.k \in {"num", "absent"}
              /\ d.linkedPlanServices.items[n].cost.copay.k \in {"num", "absent"}

\* updatePlan of the API: Plan.findOneAndUpdate({objectId}, plan) with a
\* body naming another organization; the change stream reports 'update'.
UpdatePlan(n) ==
    /\ plans' = [plans EXCEPT ![n]._org = IF @ = "acme" THEN "globex" ELSE "acme"]
    /\ UNCHANGED <<tz, procs, wh, seqs, events, now>>
    /\ UNCHANGED coordVars

\* The watcher's run and a run started by hand (`node etl_runner.js`).
StartEither ==
    /\ Len(procs) < 2
    /\ StartRun(2)

RaceInit ==
    /\ CoordIdle
    /\ plans \in {<<d>> : d \in {x \in DocSet : WellFormed(x)}}
    /\ tz \in HostOffsets
    /\ procs = <<>>
    /\ wh = EmptyDb
    /\ seqs = [s \in Serials |-> 0]
    /\ events = <<>>
    /\ now = 1

RaceNext ==
    \/ StartEither
    \/ \E n \in 1..Len(plans) : UpdatePlan(n)
    \/ \E p \in 1..Len(procs) : ConnectMongo(p)
    \/ \E p \in 1..Len(procs) : ConnectPg(p)
    \/ \E p \in 1..Len(procs) : Extract(p)
    \/ \E p \in 1..Len(procs) : Begin(p)
    \/ \E p \in 1..Len(procs) : UpsertOrganization(p)
    \/ \E p \in 1..Len(procs) : SelectPlanType(p)
    \/ \E p \in 1..Len(procs) : InsertPlanType(p)
    \/ \E p \in 1..Len(procs) : SelectDate(p)
    \/ \E p \in 1..Len(procs) : InsertDate(p)
    \/ \E p \in 1..Len(procs) : SelectPlan(p)
    \/ \E p \in 1..Len(procs) : InsertPlan(p)
    \/ \E p \in 1..Len(procs) : LoadPlanFacts(p)
    \/ \E p \in 1..Len(procs) : SelectService(p)
    \/ \E p \in 1..Len(procs) : InsertService(p)
    \/ \E p \in 1..Len(procs) : InsertServiceFact(p)
    \/ \E p \in 1..Len(procs) : Commit(p)
    \/ \E p \in 1..Len(procs) : Rollback(p)
    \/ \E p \in 1..Len(procs) : LogETLRun(p)
    \/ \E p \in 1..Len(procs) : SetEndTime(p)
    \/ \E p \in 1..Len(procs) : Finally(p)
    \/ \E p \in 1..Len(procs) : ProcessExit(p)

SpecRace == RaceInit /\ [][RaceNext]_vars

(***************************************************************************)
(* SpecChanges: runs one after another over one plan that the API rewrites *)
(* between and during the runs                                             *)
(***************************************************************************)
\* Bodies a PUT can carry for plan p1: the plan as created; another
\* organization, another spelling of the same plan type and another
\* creation date; another plan type, date and two linked services; a
\* deductible that is not a number.
Revisions ==
    {DocP1,
     [DocP1 EXCEPT !._org = "globex", !.planType = <<"I", "n", "N", "e", "t">>,
                   !.creationDate = Instant(2023, 12, 31, 0)],
     [DocP2 EXCEPT !._id = DocP1._id, !.objectId = DocP1.objectId],
     [DocBadCost EXCEPT !._id = DocP1._id, !.objectId = DocP1.objectId]}

\* updatePlan of the API with body d: the document found by objectId gets
\* the body's fields; _id and objectId stay.
RevisePlan(n, d) ==
    /\ plans[n] # [d EXCEPT !._id = plans[n]._id, !.objectId = plans[n].objectId]
    /\ plans' = [plans EXCEPT ![n] = [d EXCEPT !._id = plans[n]._id,
                                              !.objectId = plans[n].objectId]]
    /\ UNCHANGED <<tz, procs, wh, seqs, events, now>>
    /\ UNCHANGED coordVars

ChangesInit ==
    /\ CoordIdle
    /\ plans \in {<<d>> : d \in Revisions}
    /\ tz \in HostOffsets
    /\ procs = <<>>
    /\ wh = EmptyDb
    /\ seqs = [s \in Serials |-> 0]
    /\ events = <<>>
    /\ now = 1

ChangesNext ==
    \/ EtlNext
    \/ \E n \in 1..Len(plans), d \in Revisions : RevisePlan(n, d)

SpecChanges == ChangesInit /\ [][ChangesNext]_vars

(***************************************************************************)
(* SpecPlain: runs over collections made mostly of well-formed plans that  *)
(* have no linked services                                                 *)
(***************************************************************************)
\* Without linked services: p1; p2 with its type spelt "In  Net"; p3 of
\* another organization with p1's type spelt "InNet"; p4 sharing p1's
\* organization and date; p5.  And two of the other kind: p2 with its
\* linked services, p4 with a deductible that is not a number.
PlainDocs ==
    {DocP1,
     [DocP2 EXCEPT !.linkedPlanServices = NoServices],
     [DocBadDate EXCEPT !.creationDate = Instant(2024, 1, 15, 0),
                        !.planType = <<"I", "n", "N", "e", "t">>],
     [DocBadCost EXCEPT !.planCostShares = Shares(Num(0), NoCost)],
     [DocBadService EXCEPT !.linkedPlanServices = Services(<<>>)],
     DocP2, DocBadCost}

PlainInit ==
    /\ CoordIdle
    /\ plans \in {c \in UNION {[1..n -> PlainDocs] : n \in 0..MaxDocs} :
                     \A a, b \in 1..Len(c) : a # b => c[a]._id # c[b]._id}
    /\ tz \in HostOffsets
    /\ procs = <<>>
    /\ wh = EmptyDb
    /\ seqs = [s \in Serials |-> 0]
    /\ events = <<>>
    /\ now = 1

SpecPlain == PlainInit /\ [][EtlNext]_vars

(***************************************************************************)
(* SpecInputs: runs over one document whose cost shares and linked         *)
(* services take every shape the loaders distinguish                       *)
(***************************************************************************)
\* Values of planCostShares.deductible and .copay.
CostInputs == {NoCost, Num(0), Num(23), Num(2000), Num(99999999), NumStr(100), NaNCost}

\* Values of linkedPlanServices.
ServiceInputs ==
    {NoServices, NotAList, Services(<<>>),
     DocP2.linkedPlanServices, DocBadService.linkedPlanServices}

InputsInit ==
    /\ CoordIdle
    /\ plans \in {<<[DocP1 EXCEPT !.planCostShares = Shares(d, c), !.linkedPlanServices = ls]>> :
                     d \in CostInputs, c \in CostInputs, ls \in ServiceInputs}
    /\ tz \in HostOffsets
    /\ procs = <<>>
    /\ wh = EmptyDb
    /\ seqs = [s \in Serials |-> 0]
    /\ events = <<>>
    /\ now = 1

SpecInputs == InputsInit /\ [][EtlNext]_vars

(***************************************************************************)
(* Properties of the watcher (checked under SpecCoord)                     *)
(***************************************************************************)
\* C1: at most one pipeline child process is in flight (spawned, 'close'
\* not yet handled), whatever the order of change notifications, timer
\* firings, 'close' and 'error' events.
C1_AtMostOneInFlight == Cardinality(InFlight) <= 1

\* A third child is running with a trigger queued behind it, after an
\* earlier spawn failed with 'error'.
C1_Witness ==
    /\ Len(children) >= 3
    /\ Cardinality(InFlight) = 1
    /\ Len(etlQueue) >= 1
    /\ \E n \in 1..Len(closeLog) : closeLog[n].outcome = "spawnError"

\* Every notification so far was queued while the first run was in flight.
BurstDuringFirstRun ==
    /\ Len(noteLog) >= 1
    /\ \A n \in 1..Len(noteLog) : noteLog[n].queued /\ noteLog[n].run = 1

\* C2: N >= 1 notifications during one run and none afterwards: when the
\* run closes the queue is emptied and one follow-up is scheduled with the
\* 2000 ms delay, so invocations made plus follow-ups still pending are 2,
\* whatever N.
C2_BurstCollapses ==
    (BurstDuringFirstRun /\ children[1].st = "closed") =>
        /\ etlQueue = <<>>
        /\ Len(children) + Len(timers) = 2
        /\ \A n \in 1..Len(timers) : timers[n] = 2000

\* Three notifications were queued behind the first run; the follow-up ran
\* and closed, and nothing else is scheduled.
C2_Witness ==
    /\ BurstDuringFirstRun
    /\ Len(noteLog) >= 3
    /\ Len(children) = 2
    /\ children[2].st = "closed"
    /\ timers = <<>>
    /\ ~etlRunning

\* A step that calls the watcher's runETL: a change notification, a
\* debounce timer firing, or the initial call of setupChangeStream.
CallsRunETL ==
    \/ Len(noteLog') = Len(noteLog) + 1
    \/ Len(timers') = Len(timers) - 1
    \/ (watching' /\ ~watching)

\* C3: a call of runETL starts a run at once if and only if the watcher is
\* Idle; when it is Running the call appends one entry to the queue and
\* leaves the children and the flag alone, and a change notification
\* leaves the timers alone too.
C3_NotifyFrame ==
    [][CallsRunETL =>
         /\ IF etlRunning
            THEN /\ Len(etlQueue') = Len(etlQueue) + 1
                 /\ SubSeq(etlQueue', 1, Len(etlQueue)) = etlQueue
                 /\ children' = children
                 /\ etlRunning' = TRUE
            ELSE /\ Len(children') = Len(children) + 1
                 /\ SubSeq(children', 1, Len(children)) = children
                 /\ etlRunning' = TRUE
                 /\ etlQueue' = etlQueue
         /\ Len(noteLog') = Len(noteLog) + 1 => timers' = timers]_vars

\* One notification found the watcher Idle and one found it Running.
C3_Witness ==
    /\ \E n \in 1..Len(noteLog) : noteLog[n].queued
    /\ \E n \in 1..Len(noteLog) : ~noteLog[n].queued
    /\ Len(etlQueue) >= 1

(***************************************************************************)
(* Properties of the pipeline (checked under SpecETL)                      *)
(***************************************************************************)
\* The transaction events of process p, in issue order.
EventsOf(p) == SelectSeq(events, LAMBDA e : e.p = p)

CountOf(p, kind) == Cardinality({n \in 1..Len(events) : events[n].p = p /\ events[n].e = kind})

\* The run got past both connects and has left the try block.
Completed(p) == procs[p].client /\ procs[p].pc \in {"finally", "exit", "exited"}

C5_RollbackRestores ==
    [][\A p \in 1..Len(procs) :
          (procs[p].pc = "rollback" /\ procs'[p].pc # "rollback") => wh' = procs[p].snap]_vars

\* A document with an unparseable date was rolled back after its
\* organization upsert drew a key: the organization is not in the
\* warehouse, and the rows of an earlier document are.
C5_Witness ==
    \E p \in 1..Len(procs), n \in 1..Len(events) :
        /\ n = Len(events)
        /\ events[n].p = p /\ events[n].e = "ROLLBACK" /\ events[n].doc = 2
        /\ procs[p].plans[2].creationDate.k = "invalid"
        /\ ~\E r \in wh["dim_organization"] : r.org_id = procs[p].plans[2]._org
        /\ seqs["org_key"] > Cardinality(wh["dim_organization"])
        /\ wh["fact_plan_costs"] # {}

\* The audit row written by process p.
AuditRowOf(p) == CHOOSE r \in wh["etl_audit_log"] : r.audit_id = procs[p].auditId

\* C6: the audit row of a run over N documents of which k were rolled back
\* has records_processed = N, records_failed = k, records_inserted = N - k.
C6_AuditCounts ==
    \A p \in 1..Len(procs) :
        procs[p].auditId # 0 =>
            /\ \E r \in wh["etl_audit_log"] : r.audit_id = procs[p].auditId
            /\ AuditRowOf(p).records_processed = Len(plans)
            /\ AuditRowOf(p).records_failed = CountOf(p, "ROLLBACK")
            /\ AuditRowOf(p).records_inserted = Len(plans) - CountOf(p, "ROLLBACK")
            /\ AuditRowOf(p).records_inserted = CountOf(p, "COMMIT")
            /\ AuditRowOf(p).records_inserted + AuditRowOf(p).records_failed
                  <= AuditRowOf(p).records_processed

\* An audit row for two documents, one of them failed.
C6_Witness ==
    \E r \in wh["etl_audit_log"] :
        r.records_processed = 2 /\ r.records_failed = 1 /\ r.records_inserted = 1

\* C7 (as claimed): every audit row's end_time is not earlier than its
\* start_time.
C7_EndTimeNotBeforeStart ==
    \A r \in wh["etl_audit_log"] : r.end_time >= r.start_time

C10_ExitStatus ==
    \A p \in 1..Len(procs) :
        procs[p].pc = "exited" => ((procs[p].exitCode # 0) <=> ~procs[p].client)
(***************************************************************************)
(* Properties of the pipeline with a failing audit insert (SpecFaults)     *)
(***************************************************************************)
\* The run processed every document and its audit insert failed.
AuditFailed(p) ==
    /\ procs[p].client
    /\ procs[p].pc \in {"finally", "exit", "exited"}
    /\ procs[p].auditId = 0

\* C11 (as claimed): a run whose audit insert failed returns what it
\* returns when the insert succeeds (runETL falls off the end of its try
\* block: undefined, never the false of a failed run), and the facts of the
\* documents it committed are in the warehouse.
C11_AuditFailureKeepsOutcome ==
    \A p \in 1..Len(procs) :
        AuditFailed(p) =>
            /\ procs[p].ret = RunReturn(IF procs[p].stats.errors = 0
                                        THEN "allLoaded" ELSE "someFailed")
            /\ Cardinality(wh["fact_plan_costs"]) >= procs[p].stats.plansLoaded

\* C12: a client is released at most once and only if one was checked
\* out; when runETL has returned, on whichever path, a checked-out client
\* has been released, the pool is ended and the document-store connection
\* is closed.
C12_ResourcesReleased ==
    \A p \in 1..Len(procs) :
        /\ procs[p].released <= 1
        /\ procs[p].released = 1 => procs[p].client
        /\ procs[p].pc \in {"exit", "exited"} =>
              /\ procs[p].released = (IF procs[p].client THEN 1 ELSE 0)
              /\ procs[p].pool = "ended"
              /\ procs[p].mongoose = "closed"

\* One run could not reach the warehouse and another lost its audit
\* insert; both have returned.
C12_Witness ==
    \E p, r \in 1..Len(procs) :
        /\ procs[p].pc = "exited" /\ ~procs[p].client /\ procs[p].mongoose = "closed"
        /\ procs[p].ret = "false" /\ procs[p].released = 0
        /\ procs[r].pc = "exited" /\ AuditFailed(r) /\ procs[r].released = 1
        /\ procs[r].stats.plansLoaded >= 1
(***************************************************************************)
(* Properties of the dimensions over successive runs (SpecETL)             *)
(***************************************************************************)
\* At most one row per natural key and per surrogate key in each dimension.
DimUnique(db) ==
    \A t \in DimTables : \A a, b \in db[t] :
        (NatKey(t, a) = NatKey(t, b) \/ SurKey(t, a) = SurKey(t, b)) => a = b

\* The key process p holds for dimension t of its current document, 0 while
\* not resolved.
HeldKey(p, t) ==
    CASE t = "dim_organization" -> procs[p].keys.org_key
      [] t = "dim_plan_type" -> procs[p].keys.plan_type_key
      [] t = "dim_date" -> procs[p].keys.creation_date_key
      [] t = "dim_plan" -> procs[p].keys.plan_key

\* C13: with runs started one after another, every dimension holds at most
\* one row per natural key, in the committed warehouse and as any open
\* transaction sees it; a key a run holds for its document is the
\* surrogate key of the one row with the document's natural key; and a
\* committed dimension row keeps its natural and surrogate key for ever,
\* so a later run resolves the natural key to the same surrogate key.
C13_DimensionsIdempotent ==
    /\ [](/\ DimUnique(wh)
          /\ \A p \in 1..Len(procs) :
                procs[p].inTx =>
                    /\ DimUnique(View(procs[p]))
                    /\ \A t \in DimTables \ {"dim_service"} :
                          HeldKey(p, t) # 0 =>
                              \E r \in View(procs[p])[t] :
                                  /\ NatKey(t, r) \in DocNatKeys(procs[p].plans[procs[p].i])[t]
                                  /\ SurKey(t, r) = HeldKey(p, t))
    /\ [][\A t \in DimTables : \A r \in wh[t] : \E r2 \in wh'[t] :
              NatKey(t, r2) = NatKey(t, r) /\ SurKey(t, r2) = SurKey(t, r)]_vars

\* The second run holds, for its document, the plan key and the service
\* key the first run committed.
C13_Witness ==
    /\ Len(procs) = 2
    /\ procs[1].pc = "exited"
    /\ procs[2].pc = "commit"
    /\ \E r \in wh["dim_plan"] : r.plan_key = procs[2].keys.plan_key
    /\ \E f \in procs[2].tx["fact_service_costs"] :
          \E r \in wh["dim_service"] : r.service_key = f.service_key
    /\ Cardinality(wh["dim_plan"]) = 2
(***************************************************************************)
(* Properties of interleaved runs (SpecRace)                               *)
(***************************************************************************)
\* C14 (as claimed): with two runs interleaving their statements over
\* documents that load without error on their own, every dimension ends
\* with one row per natural key (so both runs use the same surrogate key)
\* and no document of either run is rolled back.
C14_ConcurrentResolution ==
    /\ DimUnique(wh)
    /\ \A n \in 1..Len(events) : events[n].e # "ROLLBACK"
(***************************************************************************)
(* Properties of the facts over successive runs (SpecETL)                  *)
(***************************************************************************)
AllWellFormed == \A n \in 1..Len(plans) : WellFormed(plans[n])

\* Runs that went through every document and wrote their audit row.
Audited == {p \in 1..Len(procs) : procs[p].auditId # 0}

\* Runs inside their document loop.
InLoop == {p \in 1..Len(procs) : procs[p].client /\ procs[p].auditId = 0}

\* The plan-cost fact rows of document n.
FactsOfDoc(n) ==
    {f \in wh["fact_plan_costs"] :
        \E r \in wh["dim_plan"] :
            r.plan_id = OrElseStr(plans[n].objectId, plans[n]._id) /\ r.plan_key = f.plan_key}

\* C15: over an unchanged collection of N well-formed documents, after R
\* runs the warehouse holds R * N plan-cost facts, R for each document
\* (plus those a run in progress has committed); no step removes a fact;
\* and once one run is through, no step changes the row count of a
\* dimension.
C15_FactsAccumulate ==
    /\ [](AllWellFormed =>
            /\ Cardinality(wh["fact_plan_costs"])
                  = Cardinality(Audited) * Len(plans)
                    + (IF InLoop = {} THEN 0 ELSE CountOf(CHOOSE p \in InLoop : TRUE, "COMMIT"))
            /\ InLoop = {} =>
                  \A n \in 1..Len(plans) : Cardinality(FactsOfDoc(n)) = Cardinality(Audited))
    /\ [][AllWellFormed => wh["fact_plan_costs"] \subseteq wh'["fact_plan_costs"]]_vars
    /\ [][(AllWellFormed /\ Audited # {}) =>
              \A t \in DimTables : Cardinality(wh'[t]) = Cardinality(wh[t])]_vars

\* Two runs over two well-formed documents: four plan-cost facts, two plan
\* rows.
C15_Witness ==
    /\ AllWellFormed
    /\ Len(plans) = 2
    /\ Cardinality(Audited) = 2
    /\ \A p \in 1..Len(procs) : procs[p].pc = "exited"
    /\ Cardinality(wh["fact_plan_costs"]) = 4
    /\ Cardinality(wh["dim_plan"]) = 2
(***************************************************************************)
(* Referential integrity (SpecETL)                                         *)
(***************************************************************************)
\* Every foreign key of every fact row of db names a dimension row of db.
ForeignKeysHold(db) ==
    /\ \A f \in db["fact_plan_costs"] :
          /\ \E r \in db["dim_plan"] : r.plan_key = f.plan_key
          /\ \E r \in db["dim_plan_type"] : r.plan_type_key = f.plan_type_key
          /\ \E r \in db["dim_organization"] : r.org_key = f.org_key
          /\ \E r \in db["dim_date"] : r.date_key = f.creation_date_key
    /\ \A f \in db["fact_service_costs"] :
          /\ \E r \in db["dim_service"] : r.service_key = f.service_key
          /\ \E r \in db["dim_plan"] : r.plan_key = f.plan_key
          /\ \E r \in db["dim_organization"] : r.org_key = f.org_key
          /\ \E r \in db["dim_date"] : r.date_key = f.date_key
    /\ \A r \in db["dim_plan"] :
          /\ \E o \in db["dim_organization"] : o.org_key = r.org_key
          /\ \E t \in db["dim_plan_type"] : t.plan_type_key = r.plan_type_key

\* C16: in the committed warehouse and in what each open transaction
\* sees, every fact row's foreign keys name existing dimension rows; a
\* transaction that has inserted a fact holds all four keys of its
\* document, resolved before the insert.
C16_ForeignKeys ==
    /\ ForeignKeysHold(wh)
    /\ \A p \in 1..Len(procs) :
          procs[p].inTx =>
              /\ ForeignKeysHold(View(procs[p]))
              /\ procs[p].tx["fact_plan_costs"] # {} =>
                    \A t \in DimTables \ {"dim_service"} : HeldKey(p, t) # 0

\* Committed plan and service facts, and a transaction that has inserted
\* its plan and service facts and not committed yet.
C16_Witness ==
    /\ wh["fact_plan_costs"] # {}
    /\ wh["fact_service_costs"] # {}
    /\ \E p \in 1..Len(procs) :
          /\ procs[p].pc = "commit"
          /\ procs[p].tx["fact_plan_costs"] # {}
          /\ Cardinality(procs[p].tx["fact_service_costs"]) = 2
(***************************************************************************)
(* The date key (SpecETL)                                                  *)
(***************************************************************************)
\* The instants getOrCreateDateKey may be called with for a document.
DateArgs(plan) == IF plan.creationDate.k = "absent" THEN NowInstants ELSE {plan.creationDate}

\* The rows of dim_date that db holds for the calendar day of instant t.
DateRowsFor(db, t) == {r \in db["dim_date"] : r.date_value = dateStr(t)}

EntryCount(plan) ==
    IF plan.linkedPlanServices.k = "list" THEN Len(plan.linkedPlanServices.items) ELSE 0

\* The document's own plan-level data lets it load.
PlanLevelLoads(plan) ==
    /\ plan.creationDate.k # "invalid"
    /\ NumericOk(OrZero(plan.planCostShares.deductible))
    /\ NumericOk(OrZero(plan.planCostShares.copay))
    /\ NumericOk(Plus(OrZero(plan.planCostShares.deductible), OrZero(plan.planCostShares.copay)))

\* C18: a document about to be committed has inserted one service-cost
\* fact per entry of its linked-services list, none when the field is
\* empty, absent or not a list, and a row of zeros for an entry without
\* cost data; a document whose plan-level data loads and whose linked
\* services are empty, absent or not a list is never rolled back; the
\* committed service facts are those of the committed loads.
C18_ServiceFacts ==
    /\ \A p \in 1..Len(procs) :
          /\ procs[p].pc = "commit" =>
                LET plan == procs[p].plans[procs[p].i] IN
                /\ Cardinality(procs[p].tx["fact_service_costs"]) = EntryCount(plan)
                /\ \A n \in 1..EntryCount(plan) :
                      plan.linkedPlanServices.items[n].cost.k = "absent" =>
                          \E f \in procs[p].tx["fact_service_costs"], r \in View(procs[p])["dim_service"] :
                              /\ r.service_id = ServiceIdOf(plan.linkedPlanServices.items[n])
                              /\ f.service_key = r.service_key
                              /\ f.deductible = 0 /\ f.copay = 0 /\ f.total_service_cost = 0
          /\ procs[p].pc = "rollback" =>
                LET plan == procs[p].plans[procs[p].i] IN
                ~(PlanLevelLoads(plan) /\ EntryCount(plan) = 0)
    /\ Cardinality(wh["fact_service_costs"])
          = Cardinality({n \in 1..Len(events) : events[n].e = "COMMIT"}) * EntryCount(plans[1])

\* A committed document with two linked services, the first without cost
\* data: two service facts, one of them all zeros.
C18_Witness ==
    /\ EntryCount(plans[1]) = 2
    /\ plans[1].linkedPlanServices.items[1].cost.k = "absent"
    /\ Cardinality(wh["fact_service_costs"]) = 2
    /\ \E f \in wh["fact_service_costs"] :
          f.deductible = 0 /\ f.copay = 0 /\ f.total_service_cost = 0
    /\ \E f \in wh["fact_service_costs"] : f.total_service_cost = 15

\* C19 (as claimed): the warehouse holds one plan-cost fact per committed
\* load, and in every plan-cost fact row, committed or not yet, the total
\* is the sum of the row's deductible and copay.
C19_TotalIsSum ==
    /\ Cardinality(wh["fact_plan_costs"])
          = Cardinality({n \in 1..Len(events) : events[n].e = "COMMIT"})
    /\ \A p \in 1..Len(procs) : \A f \in View(procs[p])["fact_plan_costs"] :
          f.total_cost_shares = f.deductible + f.copay
(***************************************************************************)
(* Properties of the watcher when its change stream fails (SpecStream)     *)
(***************************************************************************)
\* C20: the step that handles a change-stream 'error' leaves the watcher
\* process alive, schedules one setupChangeStream call with the 5000 ms
\* delay and leaves the running flag, the child processes, the queue and
\* the debounce timers as they were; when that timer fires a new
\* setupChangeStream call is started; so after an 'error' a reconnect is
\* always either scheduled or started.
C20_StreamErrorReconnects ==
    /\ [][(stream'.closed /\ ~stream.closed) =>
              /\ stream'.alive
              /\ stream'.reconnects = Append(stream.reconnects, 5000)
              /\ stream'.waiting = stream.waiting
              /\ <<etlRunning, etlQueue, children, timers>>'
                    = <<etlRunning, etlQueue, children, timers>>]_vars
    /\ [][Len(stream'.reconnects) < Len(stream.reconnects) =>
              /\ stream'.alive
              /\ stream'.waiting = stream.waiting + 1
              /\ <<etlRunning, etlQueue, children, timers>>'
                    = <<etlRunning, etlQueue, children, timers>>]_vars
    /\ [](stream.closed => (Len(stream.reconnects) + stream.waiting = 1))

\* The stream failed while a run was in flight with two triggers queued;
\* the reconnect call has been started and the run and the queue are as
\* they were.
C20_Witness ==
    /\ stream.closed /\ stream.alive
    /\ stream.waiting = 1
    /\ etlRunning
    /\ Cardinality(InFlight) = 1
    /\ Len(etlQueue) = 2
(***************************************************************************)
(* Properties of the watcher when a handler throws (SpecThrows)            *)
(***************************************************************************)
\* C21 (as claimed): the step in which a 'change' handler throws leaves
\* the watcher process alive and leaves the running flag and the pending
\* queue as they were.
C21_HandlerErrorContained ==
    [][(Len(noteLog') = Len(noteLog) + 1 /\ noteLog'[Len(noteLog')].threw) =>
          /\ stream'.alive
          /\ etlRunning' = etlRunning
          /\ etlQueue' = etlQueue]_vars
KeysInPlans(t) == UNION {DocNatKeys(plans[n])[t] : n \in 1..Len(plans)}

\* Every document is well-formed and has no linked service.
NoLinkedServices ==
    \A n \in 1..Len(plans) : WellFormed(plans[n]) /\ EntryCount(plans[n]) = 0

\* C23: when the first run over well-formed documents without linked
\* services has written its audit row, on a warehouse that was empty, each
\* of the organization, plan-type, date and plan dimensions holds one row
\* per distinct natural key of the documents and no other, dim_service and
\* fact_service_costs are empty, fact_plan_costs has one row per document,
\* and the audit table has one row: SUCCESS, records_processed = number of
\* documents, records_failed = 0.
C23_OneRunLoadsAll ==
    (NoLinkedServices /\ Len(procs) = 1 /\ procs[1].auditId # 0) =>
        /\ \A t \in DimTables \ {"dim_service"} :
              /\ {NatKey(t, r) : r \in wh[t]} = KeysInPlans(t)
              /\ Cardinality(wh[t]) = Cardinality(KeysInPlans(t))
        /\ wh["dim_service"] = {}
        /\ wh["fact_service_costs"] = {}
        /\ Cardinality(wh["fact_plan_costs"]) = Len(plans)
        /\ Cardinality(wh["etl_audit_log"]) = 1
        /\ \A r \in wh["etl_audit_log"] :
              /\ r.status = "SUCCESS"
              /\ r.records_processed = Len(plans)
              /\ r.records_failed = 0

\* One run over p1 ("inNet") and p3 ("InNet", another organization, same
\* day): two organizations, one plan type "innet", one date, two plans,
\* two plan-cost facts.
C23_Witness ==
    /\ NoLinkedServices
    /\ Len(procs) = 1 /\ procs[1].pc = "exited" /\ procs[1].auditId # 0
    /\ Len(plans) = 2
    /\ Cardinality(wh["dim_organization"]) = 2
    /\ Cardinality(wh["dim_plan_type"]) = 1
    /\ \A r \in wh["dim_plan_type"] : r.plan_type_code = <<"i", "n", "n", "e", "t">>
    /\ Cardinality(wh["dim_date"]) = 1
    /\ Cardinality(wh["dim_plan"]) = 2
    /\ Cardinality(wh["fact_plan_costs"]) = 2
(***************************************************************************)
(* Which operations reach the coordinator (SpecOps)                        *)
(***************************************************************************)
\* C24: a step in which a change notification reaches the coordinator is
\* the event of an insert, update or replace; the event of a delete starts
\* no child process, leaves the pending queue and the running flag as they
\* were and reaches no handler.
C24_DeleteNotDelivered ==
    /\ [][Len(noteLog') > Len(noteLog) =>
              stream'.lastOp \in {"insert", "update", "replace"}]_vars
    /\ [][(stream'.lastOp = "delete" /\ stream.lastOp # "delete") =>
              /\ children' = children
              /\ etlQueue' = etlQueue
              /\ etlRunning' = etlRunning
              /\ timers' = timers
              /\ noteLog' = noteLog]_vars

\* The latest operation is a delete that came while a run was in flight
\* with one notification already pending: still one pending, one child.
C24_Witness ==
    /\ stream.lastOp = "delete"
    /\ etlRunning
    /\ Len(etlQueue) = 1
    /\ Len(noteLog) = 1
    /\ Len(children) = 1
(***************************************************************************)
(* Progress of the watcher (SpecLive)                                      *)
(***************************************************************************)
\* Notifications for which no spawn has been called since they came.
Unserved == {n \in 1..Len(noteLog) : Len(children) <= noteLog[n].run}

C26_ReconnectCompletes ==
    stream.closed ~> (~stream.closed /\ stream.waiting = 0)
(***************************************************************************)
(* The close handler (SpecCrash)                                           *)
(***************************************************************************)
\* C27: the step that handles a child's 'close' sets the watcher Idle and
\* starts no run itself; it appends one 2000 ms timer and empties the
\* queue when the queue is non-empty, and leaves the timers alone when it
\* is empty, whatever the code 'close' carries.
C27_FollowUpIffPending ==
    [][Len(closeLog') = Len(closeLog) + 1 =>
          /\ closeLog'[Len(closeLog')].pending = Len(etlQueue)
          /\ etlRunning' = FALSE
          /\ etlQueue' = <<>>
          /\ Len(children') = Len(children)
          /\ IF Len(etlQueue) > 0
             THEN timers' = Append(timers, 2000)
             ELSE timers' = timers]_vars

\* The first run died with status 1 while a notification was pending and
\* was followed up; the follow-up ended with status 0, nothing pending,
\* and nothing is scheduled after it.
C27_Witness ==
    /\ Len(closeLog) = 2
    /\ closeLog[1].code = 1 /\ closeLog[1].pending >= 1
    /\ closeLog[2].code = 0 /\ closeLog[2].pending = 0 /\ closeLog[2].child = 2
    /\ timers = <<>>
    /\ ~etlRunning

(***************************************************************************)
(* Transactions on the run's connection (SpecFaults)                       *)
(***************************************************************************)
\* C28: on the one client of each run, a BEGIN is directly followed by the
\* COMMIT or ROLLBACK of the same document (or is the run's latest
\* statement, with the transaction open); a COMMIT or ROLLBACK directly
\* follows a BEGIN; the audit insert does not directly follow a BEGIN; the
\* run is inside a transaction exactly while its latest statement is a
\* BEGIN; and no transaction is open when the audit insert is issued, when
\* the client is released or afterwards.
C28_TransactionsDoNotOverlap ==
    \A p \in 1..Len(procs) :
        LET ev == EventsOf(p) IN
        /\ \A n \in 1..Len(ev) :
              /\ ev[n].e = "BEGIN" =>
                    IF n = Len(ev) THEN procs[p].inTx
                    ELSE /\ ev[n + 1].e \in {"COMMIT", "ROLLBACK"}
                         /\ ev[n + 1].doc = ev[n].doc
              /\ ev[n].e \in {"COMMIT", "ROLLBACK"} => (n > 1 /\ ev[n - 1].e = "BEGIN")
              /\ ev[n].e = "AUDIT" => (n = 1 \/ ev[n - 1].e # "BEGIN")
        /\ procs[p].inTx => (Len(ev) > 0 /\ ev[Len(ev)].e = "BEGIN")
        /\ procs[p].pc \in {"audit", "setEnd", "finally", "exit", "exited"} => ~procs[p].inTx
        /\ procs[p].released > 0 => ~procs[p].inTx

\* A run over two documents rolled the first back, committed the second,
\* wrote its audit row and released its client.
C28_Witness ==
    \E p \in 1..Len(procs) :
        /\ procs[p].released = 1
        /\ procs[p].auditId # 0
        /\ Len(EventsOf(p)) = 5
        /\ EventsOf(p)[2].e = "ROLLBACK"
        /\ EventsOf(p)[4].e = "COMMIT"
        /\ EventsOf(p)[5].e = "AUDIT"

(***************************************************************************)
(* The services-loaded counter (SpecETL)                                   *)
(***************************************************************************)
\* stats.servicesLoaded summed over the runs 1..n.
RECURSIVE ServicesCounted(_)
ServicesCounted(n) ==
    IF n = 0 THEN 0 ELSE procs[n].stats.servicesLoaded + ServicesCounted(n - 1)

\* C29 (as claimed): when no run is inside its document loop, the
\* services-loaded counters of the runs so far add up to the number of
\* committed service-cost fact rows; in particular, after the first run the
\* counter equals the number of service-cost facts that run committed.
C29_ServicesLoadedCommitted ==
    InLoop = {} => ServicesCounted(Len(procs)) = Cardinality(wh["fact_service_costs"])

(***************************************************************************)
(* Consistency of the date dimension's rows (SpecETL)                      *)
(***************************************************************************)
\* C30 (as claimed): on every host offset, every dim_date row, committed or
\* written by an open transaction, has date_key = year * 10000 +
\* month * 100 + day of the same row, a date_value that is that calendar
\* day, quarter = ceil(month / 3), and is_weekend exactly when day_of_week
\* is Sunday (0) or Saturday (6).
C30_DateRowConsistent ==
    \A p \in 1..Len(procs) :
        \A r \in View(procs[p])["dim_date"] :
            /\ r.date_key = r.year * 10000 + r.month * 100 + r.day
            /\ r.date_value = <<r.year, r.month, r.day>>
            /\ r.quarter = (r.month + 2) \div 3
            /\ r.is_weekend <=> r.day_of_week \in {0, 6}
====
